---- MODULE Spec2Model ----
(***************************************************************************)
(* Model of the layout engine of pdf2excel                                 *)
(* (src/utils/intelligent_pdf_reader.py, class IntelligentPDFReader).      *)
(*                                                                         *)
(* Representation choices                                                  *)
(*  - a Python str is a sequence of one-character strings, so that         *)
(*    upper(), isupper(), `in' (substring) and strip() are computed;       *)
(*  - page coordinates and font sizes are integers (points);               *)
(*  - None is the string "None";                                           *)
(*  - a (start, end) tuple is the sequence <<start, end>>.                 *)
(***************************************************************************)
EXTENDS Integers, Sequences, FiniteSets, TLC

VARIABLES
    \* _calculate_optimal_column_layout: arguments and returned plan
    num_cols, complexity, has_headers, row_idx, col_positions,
    \* _assess_table_complexity: the cell grid it is given as table_data
    table_grid,
    \* _classify_text_block: arguments and returned tag
    text, font_info, block_type,
    \* _classify_row_type: the spans of one row and the returned row_type
    row_spans, row_class,
    \* create_excel_from_layout: layout_info['text_blocks'], layout_info['tables'],
    \* the spans kept by the overlap filter, the unified sequence, the row
    \* cursor and the worksheet
    text_blocks, tables, filtered_text_blocks, unified_elements,
    current_excel_row, ws,
    \* the number of elements of the unified sequence that the loop of lines
    \* 599-605 has rendered
    element_index,
    \* _extract_colors: the color of each span and the fill and stroke of each
    \* drawing, in page order, and the resolved colors['table_colors']
    span_colors, drawings, table_colors,
    \* _convert_color_to_hex: argument and returned string
    color, hex_color,
    \* write_to_excel: the pages of the PDF file, pdf_data['tables'], whether
    \* analyze_pdf_layout fails on the file, the workbook, the number of
    \* pages handled, whether the workbook was saved, and the returned value
    pdf_pages, doc_tables, analysis_fails, wb, page_num, saved, result,
    \* control position of the specification that is running
    pc

plannerVars == <<num_cols, complexity, has_headers, row_idx, col_positions,
                 table_grid>>
classifyVars == <<text, font_info, block_type, row_spans, row_class>>

layoutVars == <<text_blocks, tables, filtered_text_blocks, unified_elements,
                current_excel_row, ws, element_index>>

colorVars == <<span_colors, drawings, table_colors, color, hex_color>>

docVars == <<pdf_pages, doc_tables, analysis_fails, wb, page_num, saved, result>>

vars == <<plannerVars, classifyVars, layoutVars, colorVars, docVars, pc>>

None == "None"

(***************************************************************************)
(* Each specification below exercises one part of the engine; the          *)
(* variables of the other parts rest at these values.                      *)
(***************************************************************************)
PlannerIdle ==
    /\ num_cols = 0
    /\ complexity = "simple"
    /\ has_headers = FALSE
    /\ row_idx = 0
    /\ col_positions = <<>>
    /\ table_grid = <<>>

ClassifyIdle ==
    /\ text = <<>>
    /\ font_info = [flags |-> 0]
    /\ block_type = None
    /\ row_spans = <<>>
    /\ row_class = None

\* an absent (None) string or color, told apart from every string
NoneStr == <<"None">>

\* the table_colors dict of lines 288-295
NoTableColors ==
    [header_bg |-> NoneStr, header_text |-> NoneStr, data_bg_primary |-> NoneStr,
     data_bg_alternate |-> NoneStr, data_text |-> NoneStr, border_color |-> NoneStr]

ColorIdle ==
    /\ span_colors = <<>>
    /\ drawings = <<>>
    /\ table_colors = NoTableColors
    /\ color = <<"none">>
    /\ hex_color = NoneStr

\* a worksheet: the cells touched so far, by <<row, column>>, the merged
\* ranges <<row, first column, last column>>, and the column widths and
\* default row height (0: not set)
EmptySheet ==
    [cells |-> <<>>, merged |-> {}, column_widths |-> <<>>, default_row_height |-> 0]

DocIdle ==
    /\ pdf_pages = <<>>
    /\ doc_tables = <<>>
    /\ analysis_fails = FALSE
    /\ wb = <<>>
    /\ page_num = 0
    /\ saved = FALSE
    /\ result = None

LayoutIdle ==
    /\ text_blocks = <<>>
    /\ tables = <<>>
    /\ filtered_text_blocks = <<>>
    /\ unified_elements = <<>>
    /\ current_excel_row = 0
    /\ ws = EmptySheet
    /\ element_index = 0

(***************************************************************************)
(* Generic sequence helpers                                                *)
(***************************************************************************)
\* [(i+1, i+1) for i in range(n)]
RECURSIVE OnePerColumn(_)
OnePerColumn(n) ==
    IF n <= 0 THEN <<>> ELSE Append(OnePerColumn(n - 1), <<n, n>>)

Min2(a, b) == IF a <= b THEN a ELSE b
Max2(a, b) == IF a >= b THEN a ELSE b

(***************************************************************************)
(* Python str operations on character sequences (ASCII letters)            *)
(***************************************************************************)
LowerLetters == <<"a","b","c","d","e","f","g","h","i","j","k","l","m",
                  "n","o","p","q","r","s","t","u","v","w","x","y","z">>
UpperLetters == <<"A","B","C","D","E","F","G","H","I","J","K","L","M",
                  "N","O","P","Q","R","S","T","U","V","W","X","Y","Z">>
Digits == <<"0","1","2","3","4","5","6","7","8","9">>

IsLowerCh(ch) == \E i \in DOMAIN LowerLetters : LowerLetters[i] = ch
IsUpperCh(ch) == \E i \in DOMAIN UpperLetters : UpperLetters[i] = ch
IsDigitCh(ch) == \E i \in DOMAIN Digits : Digits[i] = ch
IsSpaceCh(ch) == ch = " "

UpperCh(ch) ==
    IF IsLowerCh(ch)
    THEN UpperLetters[CHOOSE i \in DOMAIN LowerLetters : LowerLetters[i] = ch]
    ELSE ch
LowerCh(ch) ==
    IF IsUpperCh(ch)
    THEN LowerLetters[CHOOSE i \in DOMAIN UpperLetters : UpperLetters[i] = ch]
    ELSE ch

\* str.upper(), str.lower()
StrUpper(t) == [i \in DOMAIN t |-> UpperCh(t[i])]
StrLower(t) == [i \in DOMAIN t |-> LowerCh(t[i])]

\* str.isupper(): at least one cased character and no lower-case one
StrIsUpper(t) ==
    /\ \E i \in DOMAIN t : IsUpperCh(t[i])
    /\ \A i \in DOMAIN t : ~IsLowerCh(t[i])

\* str.strip()
RECURSIVE LStrip(_)
LStrip(t) == IF t # <<>> /\ IsSpaceCh(Head(t)) THEN LStrip(Tail(t)) ELSE t
RECURSIVE RStrip(_)
RStrip(t) ==
    IF t # <<>> /\ IsSpaceCh(t[Len(t)]) THEN RStrip(SubSeq(t, 1, Len(t) - 1)) ELSE t
StrStrip(t) == RStrip(LStrip(t))

\* `word in t' for strings
StrContains(t, word) ==
    \E i \in 0..(Len(t) - Len(word)) : SubSeq(t, i + 1, i + Len(word)) = word

\* any(word in t for word in words)
AnyWordIn(t, words) == \E k \in DOMAIN words : StrContains(t, words[k])

\* `ch in t' for one character
HasChar(t, ch) == \E i \in DOMAIN t : t[i] = ch

(***************************************************************************)
(* Primitive classifier                                                    *)
(***************************************************************************)
SectionKeywords ==
    << <<"C","U","R","R","E","N","T">>, <<"E","A","R","N","I","N","G","S">>,
       <<"S","T","A","T","E","M","E","N","T">>, <<"S","U","M","M","A","R","Y">>,
       <<"D","E","D","U","C","T","I","O","N">>, <<"D","E","T","A","I","L","S">>,
       <<"T","O","T","A","L">> >>

LabelKeywords ==
    << <<"E","M","P","L","O","Y","E","E">>, <<"N","A","M","E">>,
       <<"P","E","R","I","O","D">>, <<"D","A","T","E">>,
       <<"S","T","A","T","U","S">> >>

\* the two-character literal of line 492 is kept as two tokens
FooterKeywords ==
    << <<"A-circumflex", "copyright-sign">>,
       <<"c","o","p","y","r","i","g","h","t">>, <<"i","n","c">> >>

DefaultFontSize == 10
BoldBit == 16

\* bool(flags & 2**4)
IsBold(flags) == (flags \div BoldBit) % 2 = 1

\* font_info.get('size', 10), font_info.get('flags', 0)
FontSize(fi) == IF "size" \in DOMAIN fi THEN fi.size ELSE DefaultFontSize
FontFlags(fi) == IF "flags" \in DOMAIN fi THEN fi.flags ELSE 0

HasDigitOrDollar(t) == \E i \in DOMAIN t : t[i] = "$" \/ IsDigitCh(t[i])

\* the conditions of the decision list, in source order
IsMainHeader(t, fi) == FontSize(fi) > 14 /\ IsBold(FontFlags(fi))
IsSectionHeader(t, fi) ==
    /\ (IsBold(FontFlags(fi)) /\ FontSize(fi) > 10) \/ StrIsUpper(t)
    /\ AnyWordIn(StrStrip(StrUpper(t)), SectionKeywords)
IsLabel(t, fi) == HasChar(t, ":") \/ AnyWordIn(StrStrip(StrUpper(t)), LabelKeywords)
IsData(t, fi) == HasDigitOrDollar(t)
IsFooter(t, fi) == FontSize(fi) < 10 \/ AnyWordIn(StrLower(t), FooterKeywords)

\* a slip that tests for data before labels
ClassifyDataBeforeLabel(t, fi) ==
    IF IsMainHeader(t, fi) THEN "main_header"
    ELSE IF IsSectionHeader(t, fi) THEN "section_header"
    ELSE IF IsData(t, fi) THEN "data"
    ELSE IF IsLabel(t, fi) THEN "label"
    ELSE IF IsFooter(t, fi) THEN "footer"
    ELSE "text"

\* IntelligentPDFReader._classify_text_block
ClassifyTextBlock(t, fi) ==
    IF IsMainHeader(t, fi) THEN "main_header"
    ELSE IF IsSectionHeader(t, fi) THEN "section_header"
    ELSE IF IsLabel(t, fi) THEN "label"
    ELSE IF IsData(t, fi) THEN "data"
    ELSE IF IsFooter(t, fi) THEN "footer"
    ELSE "text"

\* sample span texts
T_TOTAL_DUE == <<"T","O","T","A","L"," ","D","U","E">>
T_Total == <<"T","o","t","a","l">>
T_Name_42 == <<"N","a","m","e",":"," ","4","2">>
T_DATE_7 == <<"D","A","T","E"," ","7">>
T_Dollar9 == <<"$","9">>
T_Acme_Inc == <<"A","c","m","e"," ","I","n","c">>
T_hello == <<"h","e","l","l","o">>
T_TOTAL_colon == <<"T","O","T","A","L",":"," ","$","5">>
T_ABC == <<"A","B","C">>
T_status == <<"s","t","a","t","u","s">>

SampleTexts ==
    {T_TOTAL_DUE, T_Total, T_Name_42, T_DATE_7, T_Dollar9, T_Acme_Inc,
     T_hello, T_TOTAL_colon, T_ABC, T_status}

\* font sizes around the thresholds 10 and 14; flags with and without bit 4
SampleSizes == {9, 10, 11, 14, 15, 18}
SampleFlags == {0, 2, 16, 18}

SampleFontInfos ==
    [size : SampleSizes, flags : SampleFlags] \cup [flags : SampleFlags]

InitClassify ==
    /\ text \in SampleTexts
    /\ font_info \in SampleFontInfos
    /\ block_type = None
    /\ row_spans = <<>>
    /\ row_class = None
    /\ pc = "call"
    /\ PlannerIdle
    /\ LayoutIdle
    /\ ColorIdle
    /\ DocIdle

\* one call of the classifier, as made per span by _extract_text_blocks
Classify ==
    /\ pc = "call"
    /\ block_type' = ClassifyTextBlock(text, font_info)
    /\ pc' = "returned"
    /\ UNCHANGED <<text, font_info, row_spans, row_class,
                   plannerVars, layoutVars, colorVars>>
    /\ UNCHANGED docVars

NextClassify == Classify

SpecClassify == InitClassify /\ [][NextClassify]_vars

BlockTypes == <<"main_header", "section_header", "label", "data", "footer", "text">>

\* the rule conditions in the claimed order; the last rule always applies
RuleHolds(t, fi) ==
    <<IsMainHeader(t, fi), IsSectionHeader(t, fi), IsLabel(t, fi),
      IsData(t, fi), IsFooter(t, fi), TRUE>>

FirstRule(t, fi) ==
    CHOOSE i \in 1..6 : RuleHolds(t, fi)[i] /\ \A j \in 1..(i - 1) : ~RuleHolds(t, fi)[j]

\* C2: the returned block_type is the first rule, in the order main_header,
\* section_header, label, data, footer, text, whose condition holds; a bold
\* span larger than 14 is main_header whatever its text, and a span with ':'
\* or a label keyword that no header rule takes is label even when it also
\* holds a digit or '$'.
C2_FirstMatchWins ==
    pc = "returned" /\ block_type # None =>
        /\ block_type = BlockTypes[FirstRule(text, font_info)]
        /\ (FontSize(font_info) > 14 /\ IsBold(FontFlags(font_info)))
              => block_type = "main_header"
        /\ (/\ IsLabel(text, font_info)
            /\ ~IsMainHeader(text, font_info)
            /\ ~IsSectionHeader(text, font_info))
              => block_type = "label"

\* size 18, bold, "TOTAL DUE" has been classified
C2_Witness ==
    /\ pc = "returned"
    /\ block_type = "main_header"
    /\ text = T_TOTAL_DUE
    /\ font_info = [size |-> 18, flags |-> 16]
    /\ AnyWordIn(StrUpper(text), SectionKeywords)

(***************************************************************************)
(* Numeric test and table analysis                                         *)
(***************************************************************************)
\* digits, optionally grouped by single underscores
IsDigitPart(t) ==
    /\ t # <<>>
    /\ \A i \in DOMAIN t :
          \/ IsDigitCh(t[i])
          \/ /\ t[i] = "_"
             /\ i > 1 /\ i < Len(t)
             /\ IsDigitCh(t[i - 1]) /\ IsDigitCh(t[i + 1])

IsMantissa(t) ==
    \/ IsDigitPart(t)
    \/ \E k \in DOMAIN t :
          /\ t[k] = "."
          /\ LET left == SubSeq(t, 1, k - 1)
                 right == SubSeq(t, k + 1, Len(t))
             IN /\ left = <<>> \/ IsDigitPart(left)
                /\ right = <<>> \/ IsDigitPart(right)
                /\ ~(left = <<>> /\ right = <<>>)

Unsigned(t) == IF t # <<>> /\ Head(t) \in {"+", "-"} THEN Tail(t) ELSE t

IsDecimal(t) ==
    \/ IsMantissa(t)
    \/ \E k \in DOMAIN t :
          /\ t[k] \in {"e", "E"}
          /\ IsMantissa(SubSeq(t, 1, k - 1))
          /\ IsDigitPart(Unsigned(SubSeq(t, k + 1, Len(t))))

\* float(t) does not raise ValueError (ASCII input)
ParsesAsFloat(t) ==
    LET u == Unsigned(StrStrip(t))
    IN \/ StrLower(u) \in {<<"i","n","f">>, <<"n","a","n">>,
                           <<"i","n","f","i","n","i","t","y">>}
       \/ IsDecimal(u)

\* str.replace(ch, '') for each ch of chars
RemoveChars(t, chars) == SelectSeq(t, LAMBDA ch : ch \notin chars)

\* IntelligentPDFReader._is_numeric
IsNumeric(t) ==
    IF t = <<>> \/ StrStrip(t) = <<>> \/ StrStrip(t) = <<"-">>
    THEN FALSE
    ELSE ParsesAsFloat(RemoveChars(StrStrip(t), {",", "$", "%", "-"}))

\* a table cell that extraction returned as None
NoneCell == <<"<None>">>

\* str(cell)
CellStr(cell) == IF cell = NoneCell THEN <<"N","o","n","e">> ELSE cell

\* truth value of a cell: neither None nor ''
CellTruthy(cell) == cell # NoneCell /\ cell # <<>>

\* sum(1 for x in seq if P(x))
CountIf(seq, P(_)) == Len(SelectSeq(seq, P))

RECURSIVE SumSeq(_)
SumSeq(seq) == IF seq = <<>> THEN 0 ELSE Head(seq) + SumSeq(Tail(seq))

\* a slip that accepts exactly half
DetectHeadersAtLeastHalf(table_data) ==
    IF Len(table_data) < 2 THEN FALSE
    ELSE LET first_row == table_data[1]
             text_count ==
                 CountIf(first_row,
                         LAMBDA cell : CellTruthy(cell) /\ ~IsNumeric(CellStr(cell)))
         IN 2 * text_count >= Len(first_row)

\* IntelligentPDFReader._detect_headers
DetectHeaders(table_data) ==
    IF Len(table_data) < 2 THEN FALSE
    ELSE LET first_row == table_data[1]
             text_count ==
                 CountIf(first_row,
                         LAMBDA cell : CellTruthy(cell) /\ ~IsNumeric(CellStr(cell)))
         IN 2 * text_count > Len(first_row)

LongCellLength == 20

\* IntelligentPDFReader._assess_table_complexity; the comparison with
\* num_rows * num_cols * 0.3 is made in tenths
AssessTableComplexity(table_data) ==
    IF table_data = <<>> THEN "simple"
    ELSE LET nrows == Len(table_data)
             ncols == Len(table_data[1])
             complex_cells ==
                 SumSeq([r \in DOMAIN table_data |->
                     CountIf(table_data[r],
                             LAMBDA cell : CellTruthy(cell)
                                           /\ Len(CellStr(cell)) > LongCellLength)])
         IN IF ncols > 8 \/ nrows > 20 \/ 10 * complex_cells > 3 * nrows * ncols
            THEN "complex"
            ELSE IF ncols > 4 \/ nrows > 10 THEN "medium"
            ELSE "simple"

\* a text block as built by _extract_text_blocks (the fields the layout
\* engine reads)
MkSpan(t, x, y, w, h, fi) ==
    [text |-> t, x |-> x, y |-> y, width |-> w, height |-> h,
     font_info |-> fi, block_type |-> ClassifyTextBlock(t, fi)]

\* a table as built by _extract_tables (the fields the layout engine reads)
MkTable(data, x, y, w, h) ==
    [data |-> data, x |-> x, y |-> y, width |-> w, height |-> h,
     num_rows |-> Len(data),
     num_cols |-> IF data # <<>> THEN Len(data[1]) ELSE 0,
     has_headers |-> DetectHeaders(data),
     complexity |-> AssessTableComplexity(data)]

\* all sequences over S of length at most n
SeqsUpTo(S, n) == UNION {[1..k -> S] : k \in 0..n}

(***************************************************************************)
(* Overlap filter                                                          *)
(***************************************************************************)
OverlapTolerance == 5

\* the test of lines 1139-1140 on [x0, y0, x1, y1] boxes
BoxesOverlap(text_bbox, table_bbox) ==
    /\ text_bbox[1] < table_bbox[3] - OverlapTolerance
    /\ text_bbox[3] > table_bbox[1] + OverlapTolerance
    /\ text_bbox[2] < table_bbox[4] - OverlapTolerance
    /\ text_bbox[4] > table_bbox[2] + OverlapTolerance

\* [x, y, x + width, y + height] of a text block or a table
BBoxOf(e) == <<e.x, e.y, e.x + e.width, e.y + e.height>>

\* a slip that compares the span with the first table only
OverlapsFirstTableOnly(text_block, tbls) ==
    tbls # <<>> /\ BoxesOverlap(BBoxOf(text_block), BBoxOf(Head(tbls)))

\* the inner loop of _filter_overlapping_text: overlaps_with_table
RECURSIVE OverlapsWithTable(_, _)
OverlapsWithTable(text_block, tbls) ==
    IF tbls = <<>> THEN FALSE
    ELSE IF BoxesOverlap(BBoxOf(text_block), BBoxOf(Head(tbls))) THEN TRUE
    ELSE OverlapsWithTable(text_block, Tail(tbls))

\* a slip that leaves the outer loop at the first overlapping span
RECURSIVE FilterStopsAtOverlap(_, _)
FilterStopsAtOverlap(blocks, tbls) ==
    IF blocks = <<>> THEN <<>>
    ELSE IF OverlapsWithTable(Head(blocks), tbls) THEN <<>>
         ELSE <<Head(blocks)>> \o FilterStopsAtOverlap(Tail(blocks), tbls)

\* IntelligentPDFReader._filter_overlapping_text
RECURSIVE FilterOverlappingText(_, _)
FilterOverlappingText(blocks, tbls) ==
    IF blocks = <<>> THEN <<>>
    ELSE IF OverlapsWithTable(Head(blocks), tbls)
         THEN FilterOverlappingText(Tail(blocks), tbls)
         ELSE <<Head(blocks)>> \o FilterOverlappingText(Tail(blocks), tbls)

(***************************************************************************)
(* Grid layout planner                                                     *)
(***************************************************************************)
GridColumns == 8

Complexities == {"simple", "medium", "complex"}

\* IntelligentPDFReader._calculate_optimal_column_layout
CalculateOptimalColumnLayout(n, cx, hh, ridx) ==
    IF cx = "complex" THEN
        CASE n = 1 -> << <<1, 8>> >>
          [] n = 2 -> << <<1, 4>>, <<5, 8>> >>
          [] n = 3 -> << <<1, 2>>, <<3, 5>>, <<6, 8>> >>
          [] n = 4 -> << <<1, 2>>, <<3, 4>>, <<5, 6>>, <<7, 8>> >>
          [] n = 5 -> << <<1, 1>>, <<2, 3>>, <<4, 4>>, <<5, 6>>, <<7, 8>> >>
          [] n = 6 -> << <<1, 1>>, <<2, 2>>, <<3, 4>>, <<5, 5>>, <<6, 7>>, <<8, 8>> >>
          [] n = 7 -> << <<1, 1>>, <<2, 2>>, <<3, 3>>, <<4, 4>>, <<5, 5>>, <<6, 6>>, <<7, 8>> >>
          [] n = 8 -> << <<1, 1>>, <<2, 2>>, <<3, 3>>, <<4, 4>>, <<5, 5>>, <<6, 6>>, <<7, 7>>, <<8, 8>> >>
          [] OTHER -> OnePerColumn(Min2(n, GridColumns))
    ELSE IF cx = "medium" THEN
        CASE n = 1 -> << <<1, 8>> >>
          [] n = 2 -> << <<1, 4>>, <<5, 8>> >>
          [] n = 3 -> << <<1, 2>>, <<3, 5>>, <<6, 8>> >>
          [] n = 4 -> << <<1, 2>>, <<3, 4>>, <<5, 6>>, <<7, 8>> >>
          [] n = 5 -> << <<1, 1>>, <<2, 3>>, <<4, 4>>, <<5, 6>>, <<7, 8>> >>
          [] OTHER -> OnePerColumn(Min2(n, GridColumns))
    ELSE
        CASE n = 1 -> << <<1, 8>> >>
          [] n = 2 -> << <<1, 4>>, <<5, 8>> >>
          [] n = 3 -> << <<1, 2>>, <<3, 5>>, <<6, 8>> >>
          [] n = 4 -> << <<1, 2>>, <<3, 4>>, <<5, 6>>, <<7, 8>> >>
          [] n = 5 -> << <<1, 1>>, <<2, 3>>, <<4, 4>>, <<5, 6>>, <<7, 8>> >>
          [] OTHER -> OnePerColumn(Min2(n, GridColumns))

\* Largest column count and row index offered to the planner
MaxCols == 9
MaxRowIdx == 1

InitPlanner ==
    /\ ClassifyIdle
    /\ LayoutIdle
    /\ ColorIdle
    /\ num_cols \in 1..MaxCols
    /\ complexity \in Complexities
    /\ has_headers \in BOOLEAN
    /\ row_idx \in 0..MaxRowIdx
    /\ col_positions = <<>>
    /\ table_grid = <<>>
    /\ pc = "call"
    /\ DocIdle

\* one call of the planner, as made per table row by _create_clean_table
Plan ==
    /\ pc = "call"
    /\ col_positions' = CalculateOptimalColumnLayout(num_cols, complexity, has_headers, row_idx)
    /\ pc' = "returned"
    /\ UNCHANGED <<num_cols, complexity, has_headers, row_idx, table_grid,
                   classifyVars, layoutVars, colorVars>>
    /\ UNCHANGED docVars

NextPlanner == Plan

SpecPlanner == InitPlanner /\ [][NextPlanner]_vars

\* The plan has one well-formed range per content item, ranges strictly
\* increasing and non-overlapping.
PlanOrdered(p, n) ==
    /\ Len(p) = n
    /\ \A i \in 1..Len(p) : p[i][1] <= p[i][2]
    /\ \A i \in 1..(Len(p) - 1) : p[i][2] < p[i + 1][1]

\* C1: for every N in 1..8 and every tier the returned plan has exactly N
\* ranges with start <= end, strictly increasing and non-overlapping, the
\* first starting at column 1 and the last ending at column 8.
C1_PlanCoversGrid ==
    (pc = "returned" /\ num_cols \in 1..GridColumns) =>
        /\ PlanOrdered(col_positions, num_cols)
        /\ col_positions[1][1] = 1
        /\ col_positions[Len(col_positions)][2] = GridColumns

(***************************************************************************)
(* The overlap filter on its own                                           *)
(***************************************************************************)
PlainFont == [size |-> 10, flags |-> 0]

OneCellData == << <<T_hello>> >>

\* table A occupies [10,40]x[10,40]; table B is smaller than twice the
\* tolerance; table C lies beside A
FilterTables ==
    {MkTable(OneCellData, 10, 10, 30, 30),
     MkTable(OneCellData, 10, 50, 8, 8),
     MkTable(OneCellData, 60, 10, 30, 30)}

\* spans inside, on the edge of, across and outside the eroded box of A,
\* inside B and inside C
FilterSpans ==
    {MkSpan(T_hello, 20, 20, 5, 5, PlainFont),
     MkSpan(T_ABC, 15, 15, 20, 20, PlainFont),
     MkSpan(T_Total, 35, 20, 0, 5, PlainFont),
     MkSpan(T_Total, 20, 35, 5, 0, PlainFont),
     MkSpan(T_hello, 0, 0, 5, 5, PlainFont),
     MkSpan(T_hello, 5, 20, 8, 5, PlainFont),
     MkSpan(T_ABC, 5, 20, 12, 5, PlainFont),
     MkSpan(T_ABC, 40, 20, 5, 5, PlainFont),
     MkSpan(T_hello, 12, 52, 2, 2, PlainFont),
     MkSpan(T_Dollar9, 70, 20, 5, 5, PlainFont)}

MaxSpans == 2
MaxTables == 2

InitFilter ==
    /\ text_blocks \in SeqsUpTo(FilterSpans, MaxSpans)
    /\ tables \in SeqsUpTo(FilterTables, MaxTables)
    /\ filtered_text_blocks = <<>>
    /\ unified_elements = <<>>
    /\ current_excel_row = 0
    /\ ws = EmptySheet
    /\ element_index = 0
    /\ pc = "call"
    /\ PlannerIdle
    /\ ClassifyIdle
    /\ ColorIdle
    /\ DocIdle

\* line 592: filtered_text_blocks = self._filter_overlapping_text(text_blocks, tables)
Filter ==
    /\ pc = "call"
    /\ filtered_text_blocks' = FilterOverlappingText(text_blocks, tables)
    /\ pc' = "filtered"
    /\ UNCHANGED <<text_blocks, tables, unified_elements, current_excel_row, ws,
                   element_index,
                   plannerVars, classifyVars, colorVars>>
    /\ UNCHANGED docVars

NextFilter == Filter

SpecFilter == InitFilter /\ [][NextFilter]_vars

InSeq(x, seq) == \E i \in DOMAIN seq : seq[i] = x

\* the table's bounding box shrunk by the tolerance on each side
ErodedBox(t) ==
    <<t.x + OverlapTolerance, t.y + OverlapTolerance,
      t.x + t.width - OverlapTolerance, t.y + t.height - OverlapTolerance>>

\* box a lies within box b
BoxInside(a, b) == b[1] <= a[1] /\ a[3] <= b[3] /\ b[2] <= a[2] /\ a[4] <= b[4]

\* boxes a and b share no interior point
BoxOutside(a, b) == a[3] <= b[1] \/ a[1] >= b[3] \/ a[4] <= b[2] \/ a[2] >= b[4]

\* boxes a and b intersect
BoxesIntersect(a, b) == a[1] < b[3] /\ a[3] > b[1] /\ a[2] < b[4] /\ a[4] > b[2]

InsideSomeEroded(s) ==
    \E j \in DOMAIN tables : BoxInside(BBoxOf(s), ErodedBox(tables[j]))

OutsideEveryTable(s) ==
    \A j \in DOMAIN tables : BoxOutside(BBoxOf(s), BBoxOf(tables[j]))

\* C3 as stated: every span fully inside some table's eroded box is removed,
\* and every span entirely outside every table box is retained.
C3_Conservative ==
    pc = "filtered" =>
        \A i \in DOMAIN text_blocks :
            /\ InsideSomeEroded(text_blocks[i])
                  => ~InSeq(text_blocks[i], filtered_text_blocks)
            /\ OutsideEveryTable(text_blocks[i])
                  => InSeq(text_blocks[i], filtered_text_blocks)

\* C3 amended: every span of positive width and height that lies fully
\* inside some table's eroded box is removed, and every span entirely outside
\* every table box is retained.
C3_ConservativePositive ==
    pc = "filtered" =>
        \A i \in DOMAIN text_blocks :
            /\ (/\ text_blocks[i].width > 0
                /\ text_blocks[i].height > 0
                /\ InsideSomeEroded(text_blocks[i]))
                  => ~InSeq(text_blocks[i], filtered_text_blocks)
            /\ OutsideEveryTable(text_blocks[i])
                  => InSeq(text_blocks[i], filtered_text_blocks)

\* a span inside the eroded box of the second table was removed and a span
\* outside both tables was retained
C3_Witness ==
    /\ pc = "filtered"
    /\ Len(text_blocks) = 2 /\ Len(tables) = 2
    /\ text_blocks[1].width > 0 /\ text_blocks[1].height > 0
    /\ BoxInside(BBoxOf(text_blocks[1]), ErodedBox(tables[2]))
    /\ ~BoxInside(BBoxOf(text_blocks[1]), ErodedBox(tables[1]))
    /\ OutsideEveryTable(text_blocks[2])
    /\ filtered_text_blocks = <<text_blocks[2]>>

IntersectsSomeEroded(s) ==
    \E j \in DOMAIN tables : BoxesIntersect(BBoxOf(s), ErodedBox(tables[j]))

\* C4: the filter returns, unchanged and in input order, exactly the spans
\* whose box intersects the eroded box of no table (a span intersecting any
\* one table, even partially, is dropped whole), and leaves the input spans
\* and the tables as they were.
C4_DropsWholeSpans ==
    [][(pc = "call" /\ pc' = "filtered") =>
          /\ filtered_text_blocks' =
                 SelectSeq(text_blocks, LAMBDA s : ~IntersectsSomeEroded(s))
          /\ tables' = tables
          /\ text_blocks' = text_blocks]_vars

\* a span that only partly overlaps the second table's eroded box was
\* dropped, the span after it kept
C4_Witness ==
    /\ pc = "filtered"
    /\ Len(text_blocks) = 2 /\ Len(tables) = 2
    /\ BoxesIntersect(BBoxOf(text_blocks[1]), ErodedBox(tables[2]))
    /\ ~BoxInside(BBoxOf(text_blocks[1]), ErodedBox(tables[2]))
    /\ ~BoxesIntersect(BBoxOf(text_blocks[1]), ErodedBox(tables[1]))
    /\ filtered_text_blocks = <<text_blocks[2]>>

(***************************************************************************)
(* Row grouper and layout unifier                                          *)
(***************************************************************************)
RowThreshold == 8

\* sorted(text_blocks, key=lambda x: x['y']): ascending and stable, so an
\* element's place is the count of those that go before it
SortBlocksByY(blocks) ==
    LET before(i) == {j \in DOMAIN blocks :
                         \/ blocks[j].y < blocks[i].y
                         \/ blocks[j].y = blocks[i].y /\ j < i}
    IN [p \in DOMAIN blocks |->
           blocks[CHOOSE i \in DOMAIN blocks : Cardinality(before(i)) = p - 1]]

\* a slip: ascending order obtained by reversing a descending sort, which
\* turns the order of spans with equal x around
SortRowByXTiesReversed(row) ==
    LET before(i) == {j \in DOMAIN row :
                         \/ row[j].x < row[i].x
                         \/ row[j].x = row[i].x /\ j > i}
    IN [p \in DOMAIN row |->
           row[CHOOSE i \in DOMAIN row : Cardinality(before(i)) = p - 1]]

\* current_row.sort(key=lambda x: x['x']): ascending and stable
SortRowByX(row) ==
    LET before(i) == {j \in DOMAIN row :
                         \/ row[j].x < row[i].x
                         \/ row[j].x = row[i].x /\ j < i}
    IN [p \in DOMAIN row |->
           row[CHOOSE i \in DOMAIN row : Cardinality(before(i)) = p - 1]]

\* abs(a - b)
AbsDiff(a, b) == IF a >= b THEN a - b ELSE b - a

\* a slip that measures from the span before, not from the row's first span
RECURSIVE GroupWalkChained(_, _, _, _)
GroupWalkChained(rest, rows, current_row, current_y) ==
    IF rest = <<>> THEN Append(rows, SortRowByX(current_row))
    ELSE IF AbsDiff(Head(rest).y, current_y) <= RowThreshold
         THEN GroupWalkChained(Tail(rest), rows, Append(current_row, Head(rest)),
                               Head(rest).y)
         ELSE GroupWalkChained(Tail(rest), Append(rows, SortRowByX(current_row)),
                               <<Head(rest)>>, Head(rest).y)

\* the loop of lines 840-854 over sorted_blocks[1:]
RECURSIVE GroupWalk(_, _, _, _)
GroupWalk(rest, rows, current_row, current_y) ==
    IF rest = <<>> THEN Append(rows, SortRowByX(current_row))
    ELSE IF AbsDiff(Head(rest).y, current_y) <= RowThreshold
         THEN GroupWalk(Tail(rest), rows, Append(current_row, Head(rest)), current_y)
         ELSE GroupWalk(Tail(rest), Append(rows, SortRowByX(current_row)),
                        <<Head(rest)>>, Head(rest).y)

\* a slip that walks all of sorted_blocks, not sorted_blocks[1:], so that the
\* first span is taken twice
GroupTextByRowsFromFirst(blocks) ==
    IF blocks = <<>> THEN <<>>
    ELSE LET sorted_blocks == SortBlocksByY(blocks)
         IN GroupWalk(sorted_blocks, <<>>, <<Head(sorted_blocks)>>,
                      Head(sorted_blocks).y)

\* IntelligentPDFReader._group_text_by_rows
GroupTextByRows(blocks) ==
    IF blocks = <<>> THEN <<>>
    ELSE LET sorted_blocks == SortBlocksByY(blocks)
         IN GroupWalk(Tail(sorted_blocks), <<>>, <<Head(sorted_blocks)>>,
                      Head(sorted_blocks).y)

\* min(block['y'] for block in row)
MinY(row) == CHOOSE m \in {row[i].y : i \in DOMAIN row} :
                 \A i \in DOMAIN row : m <= row[i].y

\* a slip: an unstable sort that turns elements of equal key around
SortElementsTiesReversed(elems) ==
    LET before(i) == {j \in DOMAIN elems :
                         \/ elems[j].y < elems[i].y
                         \/ elems[j].y = elems[i].y /\ j > i}
    IN [p \in DOMAIN elems |->
           elems[CHOOSE i \in DOMAIN elems : Cardinality(before(i)) = p - 1]]

\* unified_elements.sort(key=lambda x: x['y']): ascending and stable
SortElementsByY(elems) ==
    LET before(i) == {j \in DOMAIN elems :
                         \/ elems[j].y < elems[i].y
                         \/ elems[j].y = elems[i].y /\ j < i}
    IN [p \in DOMAIN elems |->
           elems[CHOOSE i \in DOMAIN elems : Cardinality(before(i)) = p - 1]]

\* a slip that emits a row element even when no span is left
TextRowElementsBlankRow(blocks) ==
    IF blocks # <<>>
    THEN LET text_rows == GroupTextByRows(blocks)
         IN [i \in DOMAIN text_rows |->
                [type |-> "text_row", y |-> MinY(text_rows[i]), data |-> text_rows[i]]]
    ELSE <<[type |-> "text_row", y |-> 0, data |-> <<>>]>>

\* lines 1154-1161: one text_row element per row
TextRowElements(blocks) ==
    IF blocks # <<>>
    THEN LET text_rows == GroupTextByRows(blocks)
         IN [i \in DOMAIN text_rows |->
                [type |-> "text_row", y |-> MinY(text_rows[i]), data |-> text_rows[i]]]
    ELSE <<>>

\* lines 1164-1169: one table element per table
TableElements(tbls) ==
    [j \in DOMAIN tbls |-> [type |-> "table", y |-> tbls[j].y, data |-> tbls[j]]]

\* IntelligentPDFReader._create_unified_layout
CreateUnifiedLayout(blocks, tbls) ==
    SortElementsByY(TextRowElements(blocks) \o TableElements(tbls))

(***************************************************************************)
(* The unifier on its own: spans the filter has kept, and tables           *)
(***************************************************************************)
\* spans with equal x, equal y, and y 8 and 9 points apart; none of them
\* reaches a table of UnifyTables
UnifySpans ==
    {MkSpan(T_hello, 0, 0, 10, 10, PlainFont),
     MkSpan(T_ABC, 0, 0, 10, 10, PlainFont),
     MkSpan(T_Dollar9, 50, 0, 10, 10, PlainFont),
     MkSpan(T_hello, 0, 8, 10, 10, PlainFont),
     MkSpan(T_ABC, 50, 8, 10, 10, PlainFont),
     MkSpan(T_hello, 0, 9, 10, 10, PlainFont),
     MkSpan(T_Total, 50, 17, 10, 10, PlainFont),
     MkSpan(T_Dollar9, 0, 17, 10, 10, PlainFont)}

\* two tables with the same top edge, which is also the y of some spans
UnifyTables ==
    {MkTable(OneCellData, 100, 8, 40, 40),
     MkTable(OneCellData, 200, 8, 40, 40)}

MaxGroupSpans == 3

InitUnify ==
    /\ text_blocks = <<>>
    /\ filtered_text_blocks \in SeqsUpTo(UnifySpans, MaxGroupSpans)
    /\ tables \in SeqsUpTo(UnifyTables, MaxTables)
    /\ unified_elements = <<>>
    /\ current_excel_row = 0
    /\ ws = EmptySheet
    /\ element_index = 0
    /\ pc = "call"
    /\ PlannerIdle
    /\ ClassifyIdle
    /\ ColorIdle
    /\ DocIdle

\* line 595: unified_elements = self._create_unified_layout(filtered_text_blocks, tables)
Unify ==
    /\ pc = "call"
    /\ unified_elements' = CreateUnifiedLayout(filtered_text_blocks, tables)
    /\ pc' = "unified"
    /\ UNCHANGED <<text_blocks, tables, filtered_text_blocks, current_excel_row, ws,
                   element_index,
                   plannerVars, classifyVars, colorVars>>
    /\ UNCHANGED docVars

NextUnify == Unify

SpecUnify == InitUnify /\ [][NextUnify]_vars

\* C5: regrouping any output row on its own gives back exactly that row,
\* same spans in the same order.
C5_GroupingIdempotent ==
    pc = "unified" =>
        \A k \in DOMAIN unified_elements :
            unified_elements[k].type = "text_row" =>
                GroupTextByRows(unified_elements[k].data)
                    = <<unified_elements[k].data>>

\* a row holds two different spans at the same x and another span, and a
\* second row exists
C5_Witness ==
    /\ pc = "unified"
    /\ \E k \in DOMAIN unified_elements :
          /\ unified_elements[k].type = "text_row"
          /\ Len(unified_elements[k].data) = 2
          /\ unified_elements[k].data[1].x = unified_elements[k].data[2].x
          /\ unified_elements[k].data[1].y = unified_elements[k].data[2].y
          /\ unified_elements[k].data[1] # unified_elements[k].data[2]
    /\ \E k \in DOMAIN unified_elements :
          /\ unified_elements[k].type = "text_row"
          /\ Len(unified_elements[k].data) = 1

\* the elements in insertion order: text rows, then tables
Inserted == TextRowElements(filtered_text_blocks) \o TableElements(tables)

SameElement(a, b) == a.type = b.type /\ a.y = b.y /\ a.data = b.data

\* the bijections between the positions of the unified sequence and the
\* insertion positions
Placements(n) == {f \in [1..n -> 1..n] : \A i, j \in 1..n : f[i] = f[j] => i = j}

\* C10: the unified sequence is sorted by ascending key (a text row's key the
\* minimum y of its spans, a table's key its top edge), holds every text row
\* and every table exactly once, and keeps elements of equal key in insertion
\* order (text rows before tables, tables in input order).
C10_UnifiedOrder ==
    pc = "unified" =>
        /\ Len(unified_elements) = Len(Inserted)
        /\ \A k \in DOMAIN unified_elements :
              IF unified_elements[k].type = "text_row"
              THEN unified_elements[k].y = MinY(unified_elements[k].data)
              ELSE unified_elements[k].y = unified_elements[k].data.y
        /\ \A i, j \in DOMAIN unified_elements :
              i < j => unified_elements[i].y <= unified_elements[j].y
        /\ \E f \in Placements(Len(unified_elements)) :
              /\ \A i \in DOMAIN unified_elements :
                    SameElement(unified_elements[i], Inserted[f[i]])
              /\ \A i, j \in DOMAIN unified_elements :
                    (i < j /\ unified_elements[i].y = unified_elements[j].y)
                        => f[i] < f[j]
              /\ \A i, j \in DOMAIN unified_elements :
                    (/\ unified_elements[i].type = "text_row"
                     /\ unified_elements[j].type = "table"
                     /\ unified_elements[i].y = unified_elements[j].y) => i < j

\* a text row and two tables share one key: the row comes first, the tables
\* follow in input order, and a lower text row comes last
C10_Witness ==
    /\ pc = "unified"
    /\ Len(tables) = 2 /\ tables[1] # tables[2]
    /\ \E k \in DOMAIN unified_elements :
          /\ k + 2 \in DOMAIN unified_elements
          /\ unified_elements[k].type = "text_row"
          /\ unified_elements[k + 1].type = "table"
          /\ unified_elements[k + 2].type = "table"
          /\ unified_elements[k].y = unified_elements[k + 1].y
          /\ unified_elements[k + 1].data = tables[1]
          /\ unified_elements[k + 2].data = tables[2]
    /\ unified_elements[Len(unified_elements)].type = "text_row"
    /\ unified_elements[Len(unified_elements)].y > tables[1].y

(***************************************************************************)
(* Color canonicalization                                                  *)
(*                                                                         *)
(* A raw color is a tagged tuple: <<"int", n>>, <<"floats", c1, .., ck>>,  *)
(* <<"str", ch1, .., chk>> or <<"none">>.  A float channel c stands for    *)
(* the number c / FloatDen; on the channels used here the product with 255 *)
(* is a multiple of 1/4, which binary floating point truncates as exact    *)
(* arithmetic does.                                                        *)
(***************************************************************************)
FloatDen == 255 * 4

HexDigits == <<"0","1","2","3","4","5","6","7","8","9","A","B","C","D","E","F">>

RECURSIVE HexDigitsOf(_)
HexDigitsOf(n) ==
    IF n < 16 THEN <<HexDigits[n + 1]>>
    ELSE Append(HexDigitsOf(n \div 16), HexDigits[(n % 16) + 1])

RECURSIVE ZeroPad(_, _)
ZeroPad(t, width) == IF Len(t) >= width THEN t ELSE ZeroPad(<<"0">> \o t, width)

\* a slip that formats without zero padding ({n:X})
FormatHexUnpadded(n, width) ==
    IF n >= 0 THEN HexDigitsOf(n) ELSE <<"-">> \o HexDigitsOf(0 - n)

\* f"{n:0<width>X}"
FormatHex(n, width) ==
    IF n >= 0 THEN ZeroPad(HexDigitsOf(n), width)
    ELSE <<"-">> \o ZeroPad(HexDigitsOf(0 - n), width - 1)

\* a slip that scales by 256
ScaleChannelBy256(c) ==
    IF c >= 0 THEN (c * 256) \div FloatDen ELSE 0 - (((0 - c) * 256) \div FloatDen)

\* int(c * 255) for the float c / FloatDen: truncation toward zero
ScaleChannel(c) ==
    IF c >= 0 THEN (c * 255) \div FloatDen ELSE 0 - (((0 - c) * 255) \div FloatDen)

ColorKind(c) == c[1]
ColorArgs(c) == Tail(c)

\* truth value of a raw color: None, 0, () and '' are false
ColorTruthy(c) ==
    CASE ColorKind(c) = "none" -> FALSE
      [] ColorKind(c) = "int" -> c[2] # 0
      [] OTHER -> Len(c) > 1

\* IntelligentPDFReader._convert_color_to_hex
ConvertColorToHex(c) ==
    CASE ColorKind(c) = "int" -> <<"F","F">> \o FormatHex(c[2], 6)
      [] ColorKind(c) = "floats" /\ Len(ColorArgs(c)) >= 3 ->
             <<"F","F">> \o FormatHex(ScaleChannel(c[2]), 2)
                         \o FormatHex(ScaleChannel(c[3]), 2)
                         \o FormatHex(ScaleChannel(c[4]), 2)
      [] ColorKind(c) = "str" /\ Len(c) > 1 /\ c[2] = "#" ->
             IF Len(ColorArgs(c)) = 7 THEN <<"F","F">> \o Tail(ColorArgs(c))
             ELSE ColorArgs(c)
      [] ColorKind(c) = "str" /\ Len(ColorArgs(c)) = 6 -> <<"F","F">> \o ColorArgs(c)
      [] OTHER -> NoneStr

\* the value of every hexadecimal digit, of either case
HexValues ==
    [ch \in {HexDigits[i] : i \in DOMAIN HexDigits}
                \cup {LowerCh(HexDigits[i]) : i \in DOMAIN HexDigits} |->
        (CHOOSE i \in DOMAIN HexDigits : HexDigits[i] = UpperCh(ch)) - 1]

\* the value of one hexadecimal digit, -1 if ch is none
HexValue(ch) == IF ch \in DOMAIN HexValues THEN HexValues[ch] ELSE -1

\* int(hex_color[a:a+2], 16) does not raise: two digits, a signed digit, or
\* a digit beside a blank
PairParses(hex, a) ==
    \/ HexValue(hex[a]) >= 0 /\ HexValue(hex[a + 1]) >= 0
    \/ hex[a] \in {"+", "-", " "} /\ HexValue(hex[a + 1]) >= 0
    \/ HexValue(hex[a]) >= 0 /\ hex[a + 1] = " "

\* int(hex_color[a:a+2], 16)
HexPair(hex, a) ==
    IF HexValue(hex[a]) >= 0 /\ HexValue(hex[a + 1]) >= 0
    THEN 16 * HexValue(hex[a]) + HexValue(hex[a + 1])
    ELSE IF hex[a] = "-" THEN 0 - HexValue(hex[a + 1])
    ELSE IF HexValue(hex[a]) >= 0 THEN HexValue(hex[a])
    ELSE HexValue(hex[a + 1])

\* the r, g, b of lines 394-396 are all parsed
RGBParses(hex) ==
    Len(hex) >= 8 /\ PairParses(hex, 3) /\ PairParses(hex, 5) /\ PairParses(hex, 7)

Luma1000(hex) == HexPair(hex, 3) * 299 + HexPair(hex, 5) * 587 + HexPair(hex, 7) * 114

DefaultBrightness == 128

\* int(n / 1000): truncation toward zero
TruncDiv1000(n) == IF n >= 0 THEN n \div 1000 ELSE 0 - ((0 - n) \div 1000)

\* IntelligentPDFReader._get_color_brightness
GetColorBrightness(hex) ==
    IF RGBParses(hex) THEN TruncDiv1000(Luma1000(hex)) ELSE DefaultBrightness

\* IntelligentPDFReader._is_suitable_header_color
IsSuitableHeaderColor(hex) ==
    40 <= GetColorBrightness(hex) /\ GetColorBrightness(hex) <= 180

\* IntelligentPDFReader._is_dark_color
IsDarkColor(hex) == RGBParses(hex) /\ Luma1000(hex) < 128 * 1000

\* IntelligentPDFReader._create_border_color
CreateBorderColor(base_color) ==
    IF RGBParses(base_color)
    THEN <<"F","F">> \o FormatHex(Min2(255, HexPair(base_color, 3) + 40), 2)
                     \o FormatHex(Min2(255, HexPair(base_color, 5) + 40), 2)
                     \o FormatHex(Min2(255, HexPair(base_color, 7) + 40), 2)
    ELSE NoneStr

(***************************************************************************)
(* Color theme resolver                                                    *)
(*                                                                         *)
(* A frequency dict is the sequence of its <<key, count>> items in         *)
(* insertion order.                                                        *)
(***************************************************************************)
\* freq[key] = freq.get(key, 0) + 1
Bump(freq, key) ==
    IF \E i \in DOMAIN freq : freq[i][1] = key
    THEN [i \in DOMAIN freq |->
             IF freq[i][1] = key THEN <<key, freq[i][2] + 1>> ELSE freq[i]]
    ELSE Append(freq, <<key, 1>>)

\* the tally loops of lines 214-254 over a list of raw colors: falsy colors
\* and colors that convert to None are skipped
RECURSIVE Tally(_, _)
Tally(raw, freq) ==
    IF raw = <<>> THEN freq
    ELSE LET hex == ConvertColorToHex(Head(raw))
         IN IF ColorTruthy(Head(raw)) /\ hex # NoneStr
            THEN Tally(Tail(raw), Bump(freq, hex))
            ELSE Tally(Tail(raw), freq)

\* sorted(freq.items(), key=lambda x: x[1], reverse=True): descending and
\* stable
SortByFreqDesc(freq) ==
    LET before(i) == {j \in DOMAIN freq :
                         \/ freq[j][2] > freq[i][2]
                         \/ freq[j][2] = freq[i][2] /\ j < i}
    IN [p \in DOMAIN freq |->
           freq[CHOOSE i \in DOMAIN freq : Cardinality(before(i)) = p - 1]]

Keys(freq) == [i \in DOMAIN freq |-> freq[i][1]]

\* the first color of a list that satisfies P, NoneStr if there is none
FirstWhere(colors, P(_)) ==
    IF \E i \in DOMAIN colors : P(colors[i])
    THEN colors[CHOOSE i \in DOMAIN colors :
                    P(colors[i]) /\ \A j \in 1..(i - 1) : ~P(colors[j])]
    ELSE NoneStr

\* max(colors, key=brightness) and min(colors, key=brightness): the first
\* of the extreme elements
MaxByBrightness(colors) ==
    colors[CHOOSE i \in DOMAIN colors :
        /\ \A j \in DOMAIN colors :
              GetColorBrightness(colors[j]) <= GetColorBrightness(colors[i])
        /\ \A j \in 1..(i - 1) :
              GetColorBrightness(colors[j]) < GetColorBrightness(colors[i])]
MinByBrightness(colors) ==
    colors[CHOOSE i \in DOMAIN colors :
        /\ \A j \in DOMAIN colors :
              GetColorBrightness(colors[j]) >= GetColorBrightness(colors[i])
        /\ \A j \in 1..(i - 1) :
              GetColorBrightness(colors[j]) > GetColorBrightness(colors[i])]

FallbackHeaderGray == <<"F","F","E","5","E","5","E","5">>
Black == <<"F","F","0","0","0","0","0","0">>
White == <<"F","F","F","F","F","F","F","F">>

\* lines 298-307 without the sort of line 300
HeaderBgFirstSeen(bg_freq) ==
    IF bg_freq = <<>> THEN NoneStr
    ELSE LET found == FirstWhere(Keys(bg_freq), IsSuitableHeaderColor)
         IN IF found # NoneStr THEN found ELSE FallbackHeaderGray

\* lines 298-307
HeaderBg(bg_freq) ==
    IF bg_freq = <<>> THEN NoneStr
    ELSE LET found == FirstWhere(Keys(SortByFreqDesc(bg_freq)), IsSuitableHeaderColor)
         IN IF found # NoneStr THEN found ELSE FallbackHeaderGray

\* lines 309-313
DataBgAlternate(bg_freq) ==
    LET very_light_colors ==
            SelectSeq(Keys(bg_freq), LAMBDA c : GetColorBrightness(c) > 240)
    IN IF bg_freq # <<>> /\ very_light_colors # <<>>
       THEN MaxByBrightness(very_light_colors) ELSE NoneStr

\* lines 316-321
DataText(text_freq) ==
    LET dark_text_colors ==
            SelectSeq(Keys(text_freq), LAMBDA c : GetColorBrightness(c) < 128)
    IN IF text_freq # <<>> /\ dark_text_colors # <<>>
       THEN MinByBrightness(dark_text_colors) ELSE NoneStr

\* lines 324-339
BorderColor(border_freq, header_bg) ==
    IF border_freq # <<>>
    THEN LET found == FirstWhere(Keys(SortByFreqDesc(border_freq)),
                                 LAMBDA c : GetColorBrightness(c) < 100)
         IN IF found # NoneStr THEN found ELSE Black
    ELSE IF header_bg # NoneStr THEN CreateBorderColor(header_bg)
    ELSE Black

\* lines 342-346
HeaderText(header_bg) ==
    IF header_bg = NoneStr THEN NoneStr
    ELSE IF IsDarkColor(header_bg) THEN White ELSE Black

\* IntelligentPDFReader._determine_table_colors
DetermineTableColors(text_freq, bg_freq, border_freq) ==
    LET header_bg == HeaderBg(bg_freq)
    IN [header_bg |-> header_bg,
        header_text |-> HeaderText(header_bg),
        data_bg_primary |-> NoneStr,
        data_bg_alternate |-> DataBgAlternate(bg_freq),
        data_text |-> DataText(text_freq),
        border_color |-> BorderColor(border_freq, header_bg)]

Fills(drws) == [i \in DOMAIN drws |-> drws[i].fill]
Strokes(drws) == [i \in DOMAIN drws |-> drws[i].stroke]

\* IntelligentPDFReader._extract_colors, its 'table_colors' entry
ExtractTableColors(spans, drws) ==
    DetermineTableColors(Tally(spans, <<>>), Tally(Fills(drws), <<>>),
                         Tally(Strokes(drws), <<>>))

(***************************************************************************)
(* The color conversion on its own                                         *)
(***************************************************************************)
\* 8-bit channel values, and float channels on and beside the 1/255 grid
IntChannels == {0, 51, 102, 153, 254, 255}
FloatChannels == {0, 203, 204, 205, 408, 612, 1016, 1020}

SampleStrColors ==
    {<<"str", "#", "3", "3", "6", "6", "9", "9">>,
     <<"str", "3", "3", "6", "6", "9", "9">>,
     <<"str", "#", "F", "F", "F">>,
     <<"str", "r", "e", "d">>}

SampleRawColors ==
    {<<"int", r * 65536 + g * 256 + b>> : r \in IntChannels, g \in IntChannels,
                                         b \in IntChannels}
    \cup {<<"floats", r, g, b>> : r \in FloatChannels, g \in FloatChannels,
                                  b \in FloatChannels}
    \cup SampleStrColors
    \cup {<<"none">>}

InitHex ==
    /\ color \in SampleRawColors
    /\ hex_color = NoneStr
    /\ span_colors = <<>>
    /\ drawings = <<>>
    /\ table_colors = NoTableColors
    /\ pc = "call"
    /\ PlannerIdle
    /\ ClassifyIdle
    /\ LayoutIdle
    /\ DocIdle

\* lines 224, 240, 247: hex = self._convert_color_to_hex(color)
Convert ==
    /\ pc = "call"
    /\ hex_color' = ConvertColorToHex(color)
    /\ pc' = "converted"
    /\ UNCHANGED <<color, span_colors, drawings, table_colors,
                   plannerVars, classifyVars, layoutVars>>
    /\ UNCHANGED docVars

NextHex == Convert

SpecHex == InitHex /\ [][NextHex]_vars

\* every channel of a float triple is c/255 for an integer c in 0..255
OnGrid(c) ==
    /\ ColorKind(c) = "floats" /\ Len(c) = 4
    /\ \A k \in 2..4 : c[k] % 4 = 0 /\ c[k] >= 0 /\ c[k] <= FloatDen

\* the integer RGB value of the color that an on-grid triple denotes
AsIntColor(c) == <<"int", (c[2] \div 4) * 65536 + (c[3] \div 4) * 256 + (c[4] \div 4)>>

RGB336699 == <<"F","F","3","3","6","6","9","9">>

\* C7: a float triple whose channels are c/255 converts to the same 8 hex
\* digits as the integer RGB value of the same color; 0x336699 and
\* (0.2, 0.4, 0.6) both give FF336699.
C7_FormatsAgree ==
    pc = "converted" =>
        /\ OnGrid(color) =>
              /\ hex_color = ConvertColorToHex(AsIntColor(color))
              /\ Len(hex_color) = 8
        /\ color = <<"floats", 204, 408, 612>> => hex_color = RGB336699
        /\ color = <<"int", 3368601>> => hex_color = RGB336699

\* (0.2, 0.4, 0.6) has been converted to FF336699
C7_Witness ==
    /\ pc = "converted"
    /\ color = <<"floats", 204, 408, 612>>
    /\ OnGrid(color)
    /\ AsIntColor(color) = <<"int", 3368601>>
    /\ hex_color = RGB336699

(***************************************************************************)
(* The theme resolver on its own                                           *)
(***************************************************************************)
SampleTextColors ==
    {<<"int", 0>>, <<"int", 1>>, <<"int", 3368601>>}

\* fills FFFFFFFE and FFFEFFFF (both of brightness 254), 336699, 666666,
\* B5B4B4 (0.299 R + 0.587 G + 0.114 B = 180.299) and the string '#FFF';
\* strokes black, 666666 and 333333
SampleDrawings ==
    {[fill |-> <<"floats", 1020, 1020, 1016>>, stroke |-> <<"none">>],
     [fill |-> <<"floats", 1016, 1020, 1020>>, stroke |-> <<"none">>],
     [fill |-> <<"floats", 204, 408, 612>>, stroke |-> <<"floats", 0, 0, 0>>],
     [fill |-> <<"none">>, stroke |-> <<"floats", 408, 408, 408>>],
     [fill |-> <<"floats", 408, 408, 408>>, stroke |-> <<"floats", 204, 204, 204>>],
     [fill |-> <<"floats", 724, 720, 720>>, stroke |-> <<"none">>],
     [fill |-> <<"str", "#", "F", "F", "F">>, stroke |-> <<"none">>]}

MaxSpanColors == 2
MaxDrawings == 3

InitColor ==
    /\ span_colors \in SeqsUpTo(SampleTextColors, MaxSpanColors)
    /\ drawings \in SeqsUpTo(SampleDrawings, MaxDrawings)
    /\ table_colors = NoTableColors
    /\ color = <<"none">>
    /\ hex_color = NoneStr
    /\ pc = "call"
    /\ PlannerIdle
    /\ ClassifyIdle
    /\ LayoutIdle
    /\ DocIdle

\* line 56: 'colors': self._extract_colors(page)
ExtractColors ==
    /\ pc = "call"
    /\ table_colors' = ExtractTableColors(span_colors, drawings)
    /\ pc' = "extracted"
    /\ UNCHANGED <<span_colors, drawings, color, hex_color,
                   plannerVars, classifyVars, layoutVars>>
    /\ UNCHANGED docVars

NextColor == ExtractColors

SpecColor == InitColor /\ [][NextColor]_vars

Permute(seq, f) == [i \in DOMAIN seq |-> seq[f[i]]]

\* no two colors of one frequency dict have the same count
NoFrequencyTie(freq) ==
    \A i, j \in DOMAIN freq : i # j => freq[i][2] # freq[j][2]

NoFrequencyTies ==
    /\ NoFrequencyTie(Tally(span_colors, <<>>))
    /\ NoFrequencyTie(Tally(Fills(drawings), <<>>))
    /\ NoFrequencyTie(Tally(Strokes(drawings), <<>>))

\* of two equally frequent colors of which the first seen qualifies, the
\* later one is not chosen
FirstSeenWins(freq, chosen, Qualifies(_)) ==
    \A i, j \in DOMAIN freq :
        (i < j /\ freq[i][2] = freq[j][2] /\ Qualifies(freq[i][1]))
            => chosen # freq[j][1]

\* C6: when no two colors of one source kind are equally frequent, every
\* reordering of the observations resolves to the same theme; and among
\* equally frequent colors the one seen first wins.
C6_ThemeDeterministic ==
    pc = "extracted" =>
        /\ NoFrequencyTies =>
              \A f \in Placements(Len(span_colors)), g \in Placements(Len(drawings)) :
                  ExtractTableColors(Permute(span_colors, f), Permute(drawings, g))
                      = table_colors
        /\ FirstSeenWins(Tally(Fills(drawings), <<>>), table_colors.header_bg,
                         IsSuitableHeaderColor)
        /\ FirstSeenWins(Tally(Strokes(drawings), <<>>), table_colors.border_color,
                         LAMBDA c : GetColorBrightness(c) < 100)

(***************************************************************************)
(* Worksheet                                                               *)
(*                                                                         *)
(* Columns are numbered 1..8 for A..H (get_column_letter).  A rendering    *)
(* state st is [ws, raised]: the sheet, and whether an exception has left  *)
(* the renderer; every operation leaves a raised state as it is.           *)
(***************************************************************************)
UnsetFont == [size |-> 0, bold |-> FALSE, color |-> NoneStr]
UnsetAlignment == [horizontal |-> None, vertical |-> None]
BlankCell ==
    [value |-> NoneStr, font |-> UnsetFont, alignment |-> UnsetAlignment,
     fill |-> NoneStr, border |-> NoneStr]

\* ws[f'{col_letter}{row}']
CellAt(sheet, row, col) ==
    IF <<row, col>> \in DOMAIN sheet.cells THEN sheet.cells[<<row, col>>] ELSE BlankCell

PutCell(sheet, row, col, cell) ==
    [sheet EXCEPT !.cells =
        [k \in (DOMAIN sheet.cells) \cup {<<row, col>>} |->
            IF k = <<row, col>> THEN cell ELSE sheet.cells[k]]]

\* truth value of an optional color string
Truthy(c) == c # NoneStr /\ c # <<>>

\* the colors that Font, PatternFill and Side accept: 6 or 8 hexadecimal
\* digits, 6 digits being stored with alpha 00; any other string raises
ValidARGB(c) == Len(c) \in {6, 8} /\ \A i \in DOMAIN c : HexValue(c[i]) >= 0
StoredColor(c) == IF Len(c) = 6 THEN <<"0","0">> \o c ELSE c
ColorRaises(c) == Truthy(c) /\ ~ValidARGB(c)

\* Font(size=.., bold=.., color=..)
MkFont(size, bold, c) ==
    [size |-> size, bold |-> bold, color |-> IF Truthy(c) THEN StoredColor(c) ELSE NoneStr]

\* Alignment(horizontal=.., vertical='center')
MkAlignment(horizontal) == [horizontal |-> horizontal, vertical |-> "center"]

Raise(st) == [st EXCEPT !.raised = TRUE]

\* cell.value = value
SetValue(st, row, col, value) ==
    IF st.raised THEN st
    ELSE [st EXCEPT !.ws =
             PutCell(st.ws, row, col, [CellAt(st.ws, row, col) EXCEPT !.value = value])]

\* cell.font = Font(size=.., bold=.., color=c)
SetFont(st, row, col, size, bold, c) ==
    IF st.raised THEN st
    ELSE IF ColorRaises(c) THEN Raise(st)
    ELSE [st EXCEPT !.ws =
             PutCell(st.ws, row, col,
                     [CellAt(st.ws, row, col) EXCEPT !.font = MkFont(size, bold, c)])]

\* if c: cell.fill = PatternFill(start_color=c, end_color=c, fill_type='solid')
SetFillIf(st, row, col, c) ==
    IF st.raised \/ ~Truthy(c) THEN st
    ELSE IF ColorRaises(c) THEN Raise(st)
    ELSE [st EXCEPT !.ws =
             PutCell(st.ws, row, col,
                     [CellAt(st.ws, row, col) EXCEPT !.fill = StoredColor(c)])]

\* cell.alignment = Alignment(horizontal=.., vertical='center')
SetAlignment(st, row, col, horizontal) ==
    IF st.raised THEN st
    ELSE [st EXCEPT !.ws =
             PutCell(st.ws, row, col,
                     [CellAt(st.ws, row, col) EXCEPT !.alignment = MkAlignment(horizontal)])]

\* lines 1269-1277: a thin border of color c on every cell of the range
RECURSIVE SetBorderCells(_, _, _, _, _)
SetBorderCells(sheet, row, col, end_col, c) ==
    IF col > end_col THEN sheet
    ELSE SetBorderCells(
             PutCell(sheet, row, col, [CellAt(sheet, row, col) EXCEPT !.border = StoredColor(c)]),
             row, col + 1, end_col, c)

SetBorderIf(st, row, start_col, end_col, c) ==
    IF st.raised \/ ~Truthy(c) THEN st
    ELSE IF ColorRaises(c) THEN Raise(st)
    ELSE [st EXCEPT !.ws = SetBorderCells(st.ws, row, start_col, end_col, c)]

\* IntelligentPDFReader._create_merged_cell; an omitted font, alignment or
\* fill is UnsetFont, UnsetAlignment or NoneStr
CreateMergedCell(st, row, start_col, end_col, value, font, alignment, fill) ==
    IF st.raised THEN st
    ELSE LET old == CellAt(st.ws, row, start_col)
             cell == [value |-> value,
                      font |-> IF font # UnsetFont THEN font ELSE old.font,
                      alignment |-> IF alignment # UnsetAlignment THEN alignment
                                    ELSE old.alignment,
                      fill |-> IF fill # NoneStr THEN fill ELSE old.fill,
                      border |-> old.border]
             written == PutCell(st.ws, row, start_col, cell)
         IN [st EXCEPT !.ws =
                [written EXCEPT !.merged = @ \cup {<<row, start_col, end_col>>}]]

ComplexWidths == <<30, 35, 20, 25, 25, 25, 25, 25>>
MediumWidths == <<25, 30, 18, 22, 22, 22, 22, 22>>
SimpleWidths == <<22, 25, 18, 20, 20, 20, 20, 20>>
DefaultRowHeight == 20

\* IntelligentPDFReader._setup_worksheet
SetupWorksheet(sheet, tbls) ==
    LET firstComplex == \E i \in DOMAIN tbls : tbls[i].complexity = "complex"
        anyMedium == \E i \in DOMAIN tbls : tbls[i].complexity = "medium"
        column_widths == IF firstComplex THEN ComplexWidths
                         ELSE IF anyMedium THEN MediumWidths
                         ELSE SimpleWidths
    IN [sheet EXCEPT !.column_widths = column_widths,
                     !.default_row_height = DefaultRowHeight]

(***************************************************************************)
(* Text rows                                                               *)
(***************************************************************************)
RowSectionKeywords ==
    << <<"C","U","R","R","E","N","T">>,
       <<"E","A","R","N","I","N","G","S">>,
       <<"S","T","A","T","E","M","E","N","T">>,
       <<"S","U","M","M","A","R","Y">>,
       <<"D","E","D","U","C","T","I","O","N">>,
       <<"D","E","T","A","I","L","S">> >>

RowLabelKeywords ==
    << <<"E","M","P","L","O","Y","E","E">>,
       <<"N","A","M","E">>,
       <<"P","E","R","I","O","D">>,
       <<"S","T","A","T","U","S">>,
       <<"D","A","T","E">> >>

TableHeaderKeywords ==
    << <<"T","Y","P","E">>,
       <<"H","O","U","R","S">>,
       <<"P","A","Y","M","E","N","T">>,
       <<"C","U","R","R","E","N","T">>,
       <<"Y","T","D">> >>

HeaderPairSize == 14

\* ' '.join(texts)
RECURSIVE StrJoinSpace(_)
StrJoinSpace(texts) ==
    IF texts = <<>> THEN <<>>
    ELSE IF Len(texts) = 1 THEN texts[1]
    ELSE texts[1] \o <<" ">> \o StrJoinSpace(Tail(texts))

UpperTexts(row_elements) == [i \in DOMAIN row_elements |-> StrUpper(row_elements[i].text)]

\* a slip that tests the label keywords before the font sizes
ClassifyRowLabelFirst(row_elements) ==
    IF row_elements = <<>> THEN "empty"
    ELSE IF /\ Len(row_elements) = 1
            /\ AnyWordIn(StrUpper(row_elements[1].text), RowSectionKeywords)
         THEN "section_header"
    ELSE IF /\ Len(row_elements) = 2
            /\ AnyWordIn(StrJoinSpace(UpperTexts(row_elements)), RowLabelKeywords)
         THEN "label_pair"
    ELSE IF /\ Len(row_elements) = 2
            /\ \E i \in DOMAIN row_elements :
                   FontSize(row_elements[i].font_info) > HeaderPairSize
         THEN "header_pair"
    ELSE IF /\ Len(row_elements) >= 3
            /\ AnyWordIn(StrJoinSpace(UpperTexts(row_elements)), TableHeaderKeywords)
         THEN "table_header"
    ELSE IF \E i \in DOMAIN row_elements :
                IsNumeric(row_elements[i].text) \/ HasChar(row_elements[i].text, "$")
         THEN "data_row"
    ELSE "default"

\* IntelligentPDFReader._classify_row_type
ClassifyRowType(row_elements) ==
    IF row_elements = <<>> THEN "empty"
    ELSE IF /\ Len(row_elements) = 1
            /\ AnyWordIn(StrUpper(row_elements[1].text), RowSectionKeywords)
         THEN "section_header"
    ELSE IF /\ Len(row_elements) = 2
            /\ \E i \in DOMAIN row_elements :
                   FontSize(row_elements[i].font_info) > HeaderPairSize
         THEN "header_pair"
    ELSE IF /\ Len(row_elements) = 2
            /\ AnyWordIn(StrJoinSpace(UpperTexts(row_elements)), RowLabelKeywords)
         THEN "label_pair"
    ELSE IF /\ Len(row_elements) >= 3
            /\ AnyWordIn(StrJoinSpace(UpperTexts(row_elements)), TableHeaderKeywords)
         THEN "table_header"
    ELSE IF \E i \in DOMAIN row_elements :
                IsNumeric(row_elements[i].text) \/ HasChar(row_elements[i].text, "$")
         THEN "data_row"
    ELSE "default"

TitleBlue == <<"F","F","1","F","4","E","7","9">>

\* IntelligentPDFReader._create_header_pair_row
CreateHeaderPairRow(st, elements, row) ==
    IF Len(elements) >= 2
    THEN CreateMergedCell(
             CreateMergedCell(st, row, 1, 4, elements[1].text,
                              MkFont(16, TRUE, TitleBlue), MkAlignment("left"), NoneStr),
             row, 5, 8, elements[2].text,
             MkFont(20, TRUE, TitleBlue), MkAlignment("right"), NoneStr)
    ELSE IF Len(elements) = 1
    THEN CreateMergedCell(st, row, 1, 8, elements[1].text,
                          MkFont(16, TRUE, TitleBlue), MkAlignment("center"), NoneStr)
    ELSE st

\* IntelligentPDFReader._create_label_pair_row
CreateLabelPairRow(st, elements, row) ==
    IF Len(elements) >= 2
    THEN CreateMergedCell(
             CreateMergedCell(st, row, 1, 4, elements[1].text,
                              MkFont(10, TRUE, NoneStr), MkAlignment("left"), NoneStr),
             row, 5, 8, elements[2].text,
             MkFont(10, TRUE, NoneStr), MkAlignment("left"), NoneStr)
    ELSE IF Len(elements) = 1
    THEN SetFont(SetValue(st, row, 1, elements[1].text), row, 1, 10, TRUE, NoneStr)
    ELSE st

\* IntelligentPDFReader._create_section_header_row: the font and the fill
\* are built before the cell is written
CreateSectionHeaderRow(st, elements, row, colors) ==
    IF ColorRaises(colors.header_text) \/ ColorRaises(colors.header_bg) THEN Raise(st)
    ELSE CreateMergedCell(st, row, 1, 8, elements[1].text,
                          MkFont(12, TRUE, colors.header_text), MkAlignment("center"),
                          IF Truthy(colors.header_bg) THEN StoredColor(colors.header_bg)
                          ELSE NoneStr)

\* lines 1014-1030 and 1062-1078: the column spans of a text row of n
\* elements
RowColumnPositions(n) ==
    CASE n = 1 -> << <<1, 8>> >>
      [] n = 2 -> << <<1, 4>>, <<5, 8>> >>
      [] n = 3 -> << <<1, 2>>, <<3, 5>>, <<6, 8>> >>
      [] n = 4 -> << <<1, 2>>, <<3, 4>>, <<5, 6>>, <<7, 8>> >>
      [] n = 5 -> << <<1, 1>>, <<2, 3>>, <<4, 5>>, <<6, 7>>, <<8, 8>> >>
      [] n = 6 -> << <<1, 1>>, <<2, 2>>, <<3, 4>>, <<5, 6>>, <<7, 7>>, <<8, 8>> >>
      [] n = 7 -> << <<1, 1>>, <<2, 2>>, <<3, 3>>, <<4, 4>>, <<5, 5>>, <<6, 6>>, <<7, 8>> >>
      [] OTHER -> OnePerColumn(Min2(n, GridColumns))

\* lines 1032-1053: the elements from the i-th on
RECURSIVE TableHeaderCells(_, _, _, _, _, _)
TableHeaderCells(st, elements, col_positions_, i, row, colors) ==
    IF i > Len(elements) \/ i > Len(col_positions_) THEN st
    ELSE LET start_col == col_positions_[i][1]
             end_col == col_positions_[i][2]
             fill == IF Truthy(colors.header_bg) THEN StoredColor(colors.header_bg)
                     ELSE NoneStr
             done ==
                 IF start_col = end_col
                 THEN SetAlignment(
                          SetFillIf(
                              SetFont(SetValue(st, row, start_col, elements[i].text),
                                      row, start_col, 10, TRUE, colors.header_text),
                              row, start_col, colors.header_bg),
                          row, start_col, "center")
                 ELSE CreateMergedCell(st, row, start_col, end_col, elements[i].text,
                                       MkFont(10, TRUE, colors.header_text),
                                       MkAlignment("center"), fill)
         IN TableHeaderCells(done, elements, col_positions_, i + 1, row, colors)

\* IntelligentPDFReader._create_table_header_row
CreateTableHeaderRow(st, elements, row, colors) ==
    IF ColorRaises(colors.header_text) \/ ColorRaises(colors.header_bg) THEN Raise(st)
    ELSE TableHeaderCells(st, elements, RowColumnPositions(Len(elements)), 1, row, colors)

\* the alignment of lines 1092-1095 and 1260-1263
SmartAlignment(value) ==
    IF IsNumeric(value) \/ HasChar(value, "$") THEN "right" ELSE "left"

\* lines 1080-1103: the elements from the i-th on
RECURSIVE DataRowCells(_, _, _, _, _)
DataRowCells(st, elements, col_positions_, i, row) ==
    IF i > Len(elements) \/ i > Len(col_positions_) THEN st
    ELSE LET start_col == col_positions_[i][1]
             end_col == col_positions_[i][2]
             done ==
                 IF start_col = end_col
                 THEN SetAlignment(
                          SetFont(SetValue(st, row, start_col, elements[i].text),
                                  row, start_col, 10, FALSE, NoneStr),
                          row, start_col, SmartAlignment(elements[i].text))
                 ELSE CreateMergedCell(st, row, start_col, end_col, elements[i].text,
                                       MkFont(10, FALSE, NoneStr), MkAlignment("left"),
                                       NoneStr)
         IN DataRowCells(done, elements, col_positions_, i + 1, row)

\* IntelligentPDFReader._create_data_row
CreateDataRow(st, elements, row) ==
    DataRowCells(st, elements, RowColumnPositions(Len(elements)), 1, row)

DefaultPageWidth == 595

\* int(x / y) for y > 0: truncation toward zero
TruncDiv(x, y) == IF x >= 0 THEN x \div y ELSE 0 - ((0 - x) \div y)

\* IntelligentPDFReader._get_column_from_x: x / (page_width / 8) is
\* 8 * x / page_width
GetColumnFromX(x_pos, page_width) ==
    Max2(1, Min2(GridColumns, TruncDiv(GridColumns * x_pos, page_width) + 1))

\* IntelligentPDFReader._create_default_row
RECURSIVE CreateDefaultRow(_, _, _, _)
CreateDefaultRow(st, elements, row, page_width) ==
    IF elements = <<>> THEN st
    ELSE LET col == GetColumnFromX(Head(elements).x, page_width)
         IN CreateDefaultRow(
                SetAlignment(
                    SetFont(SetValue(st, row, col, Head(elements).text),
                            row, col, 10, FALSE, NoneStr),
                    row, col, "left"),
                Tail(elements), row, page_width)

\* IntelligentPDFReader._create_row_layout: the sheet after the row (the
\* returned cursor is excel_row + 1)
CreateRowLayout(st, row_elements, excel_row, colors, page_width) ==
    LET row_type == ClassifyRowType(row_elements)
    IN CASE row_elements = <<>> -> st
         [] row_type = "header_pair" -> CreateHeaderPairRow(st, row_elements, excel_row)
         [] row_type = "label_pair" -> CreateLabelPairRow(st, row_elements, excel_row)
         [] row_type = "section_header" ->
                CreateSectionHeaderRow(st, row_elements, excel_row, colors)
         [] row_type = "table_header" ->
                CreateTableHeaderRow(st, row_elements, excel_row, colors)
         [] row_type = "data_row" -> CreateDataRow(st, row_elements, excel_row)
         [] OTHER -> CreateDefaultRow(st, row_elements, excel_row, page_width)

(***************************************************************************)
(* Tables                                                                  *)
(***************************************************************************)
\* line 1192: [str(cell).strip() for cell in row_data if str(cell).strip()]
CleanedRow(row_data) ==
    SelectSeq([i \in DOMAIN row_data |-> StrStrip(CellStr(row_data[i]))],
              LAMBDA v : v # <<>>)

\* lines 1208-1277: value, formatting and border of one table cell
CleanTableCell(st, cell_value, pos, row_idx_, current_row, colors) ==
    LET start_col == pos[1]
        end_col == pos[2]
        placed ==
            IF start_col = end_col
            THEN SetValue(st, current_row, start_col, cell_value)
            ELSE CreateMergedCell(st, current_row, start_col, end_col, cell_value,
                                  UnsetFont, UnsetAlignment, NoneStr)
        formatted ==
            IF row_idx_ = 0
            THEN SetAlignment(
                     SetFillIf(
                         SetFont(placed, current_row, start_col, 10, TRUE,
                                 colors.header_text),
                         current_row, start_col, colors.header_bg),
                     current_row, start_col, "center")
            ELSE SetAlignment(
                     SetFillIf(
                         SetFont(placed, current_row, start_col, 10, FALSE,
                                 colors.data_text),
                         current_row, start_col,
                         IF row_idx_ % 2 = 0 THEN colors.data_bg_primary
                         ELSE colors.data_bg_alternate),
                     current_row, start_col, SmartAlignment(cell_value))
    IN SetBorderIf(formatted, current_row, start_col, end_col, colors.border_color)

\* lines 1207-1277: the cells of one row from the col_idx-th on
RECURSIVE CleanTableCells(_, _, _, _, _, _, _)
CleanTableCells(st, cleaned_row, col_positions_, col_idx, row_idx_, current_row, colors) ==
    IF col_idx > Len(cleaned_row) \/ col_idx > Len(col_positions_) THEN st
    ELSE CleanTableCells(
             CleanTableCell(st, cleaned_row[col_idx], col_positions_[col_idx],
                            row_idx_, current_row, colors),
             cleaned_row, col_positions_, col_idx + 1, row_idx_, current_row, colors)

\* a slip that leaves current_row where it is after a row
RECURSIVE CleanTableRowsSameRow(_, _, _, _, _)
CleanTableRowsSameRow(st, table_data, k, current_row, colors) ==
    IF k > Len(table_data.data) \/ st.raised THEN [st |-> st, row |-> current_row]
    ELSE LET cleaned_row == CleanedRow(table_data.data[k])
             plan == CalculateOptimalColumnLayout(Len(cleaned_row), table_data.complexity,
                                                  table_data.has_headers, k - 1)
         IN IF cleaned_row = <<>>
            THEN CleanTableRowsSameRow(st, table_data, k + 1, current_row, colors)
            ELSE CleanTableRowsSameRow(
                     CleanTableCells(st, cleaned_row, plan, 1, k - 1, current_row, colors),
                     table_data, k + 1, current_row, colors)

\* lines 1190-1278: the rows from the k-th on (row_idx = k - 1); the result
\* is the rendering state with the row that follows the last one written
RECURSIVE CleanTableRows(_, _, _, _, _)
CleanTableRows(st, table_data, k, current_row, colors) ==
    IF k > Len(table_data.data) \/ st.raised THEN [st |-> st, row |-> current_row]
    ELSE LET cleaned_row == CleanedRow(table_data.data[k])
             plan == CalculateOptimalColumnLayout(Len(cleaned_row), table_data.complexity,
                                                  table_data.has_headers, k - 1)
         IN IF cleaned_row = <<>>
            THEN CleanTableRows(st, table_data, k + 1, current_row, colors)
            ELSE CleanTableRows(
                     CleanTableCells(st, cleaned_row, plan, 1, k - 1, current_row, colors),
                     table_data, k + 1, current_row + 1, colors)

\* IntelligentPDFReader._create_clean_table
CreateCleanTable(st, table_data, start_row, colors) ==
    IF table_data.data = <<>> THEN [st |-> st, row |-> start_row]
    ELSE CleanTableRows(st, table_data, 1, start_row, colors)

\* a slip that starts the table on the cursor row
TableStartRowNoSpacer(cursor) == cursor

\* line 603: current_excel_row += 1 before the table
TableStartRow(cursor) == cursor + 1

(***************************************************************************)
(* create_excel_from_layout                                                *)
(***************************************************************************)
T_CURRENT_EARNINGS == <<"C","U","R","R","E","N","T"," ","E","A","R","N","I","N","G","S">>
T_Payroll == <<"P","a","y","r","o","l","l">>
T_Hourly == <<"H","o","u","r","l","y">>
T_Type == <<"T","y","p","e">>
T_Hours == <<"H","o","u","r","s">>
T_Pay == <<"P","a","y">>
T_Regular == <<"R","e","g","u","l","a","r">>
T_40 == <<"4","0">>
T_800 == <<"$","8","0","0",".","0","0">>

BoldFont12 == [size |-> 12, flags |-> 16]
TitleFont == [size |-> 16, flags |-> 16]

SectionSpan == MkSpan(T_CURRENT_EARNINGS, 50, 10, 120, 12, BoldFont12)

\* [Type, Hours, Pay], [Regular, 40, $800.00], below SectionSpan
PayTable ==
    MkTable(<< <<T_Type, T_Hours, T_Pay>>, <<T_Regular, T_40, T_800>> >>, 50, 40, 400, 40)

\* a first row that is blank, a None cell and a padded cell
RaggedTable ==
    MkTable(<< << <<>>, <<" ">> >>, <<NoneCell, <<" ","7"," ">>, T_hello>> >>,
            50, 100, 400, 40)

\* spans of every row type; the one at (60, 50) lies inside PayTable
RenderSpans ==
    {SectionSpan,
     MkSpan(T_Payroll, 50, 10, 80, 16, TitleFont),
     MkSpan(T_Hourly, 400, 12, 40, 10, PlainFont),
     MkSpan(T_Dollar9, 300, 180, 20, 10, PlainFont),
     MkSpan(T_hello, 50, 180, 30, 10, PlainFont),
     MkSpan(T_Regular, 60, 50, 30, 10, PlainFont)}

\* a row of three spans that reads as a table header
HeaderRowPage ==
    <<MkSpan(T_Type, 50, 200, 30, 10, PlainFont),
      MkSpan(T_Hours, 200, 200, 30, 10, PlainFont),
      MkSpan(T_Pay, 400, 200, 30, 10, PlainFont)>>

\* a row of two spans that reads as a pair of labels
LabelRowPage ==
    <<MkSpan(T_Name_42, 50, 160, 40, 10, PlainFont),
      MkSpan(T_status, 300, 160, 40, 10, PlainFont)>>

RenderTables == {PayTable, RaggedTable}

\* the themes of a page without drawings, of a page with a 336699 fill and
\* a black stroke, and of a page whose fill is the string '#FFF'
RenderThemes ==
    {ExtractTableColors(<<>>, <<>>),
     ExtractTableColors(<< <<"int", 3368601>> >>,
                        << [fill |-> <<"floats", 204, 408, 612>>,
                            stroke |-> <<"floats", 0, 0, 0>>] >>),
     ExtractTableColors(<<>>, << [fill |-> <<"str", "#", "F", "F", "F">>,
                                  stroke |-> <<"none">>] >>)}

MaxRenderSpans == 2
MaxRenderTables == 1

Init ==
    /\ text_blocks \in SeqsUpTo(RenderSpans, MaxRenderSpans)
                           \cup {HeaderRowPage, LabelRowPage}
    /\ tables \in SeqsUpTo(RenderTables, MaxRenderTables)
    /\ table_colors \in RenderThemes
    /\ filtered_text_blocks = <<>>
    /\ unified_elements = <<>>
    /\ current_excel_row = 0
    /\ ws = EmptySheet
    /\ element_index = 0
    /\ span_colors = <<>>
    /\ drawings = <<>>
    /\ color = <<"none">>
    /\ hex_color = NoneStr
    /\ pc = "call"
    /\ PlannerIdle
    /\ ClassifyIdle
    /\ DocIdle

\* lines 581-598: up to the first iteration of the loop
Begin ==
    /\ pc = "call"
    /\ ws' = SetupWorksheet(ws, tables)
    /\ filtered_text_blocks' = FilterOverlappingText(text_blocks, tables)
    /\ unified_elements' =
           CreateUnifiedLayout(FilterOverlappingText(text_blocks, tables), tables)
    /\ current_excel_row' = 1
    /\ pc' = "loop"
    /\ UNCHANGED <<text_blocks, tables, element_index, plannerVars, classifyVars,
                   colorVars>>
    /\ UNCHANGED docVars

\* lines 600-601: one text_row element
RenderTextRow ==
    /\ pc = "loop"
    /\ element_index < Len(unified_elements)
    /\ unified_elements[element_index + 1].type = "text_row"
    /\ LET st == CreateRowLayout([ws |-> ws, raised |-> FALSE],
                                 unified_elements[element_index + 1].data,
                                 current_excel_row, table_colors, DefaultPageWidth)
       IN /\ ws' = st.ws
          /\ IF st.raised
             THEN /\ pc' = "error"
                  /\ UNCHANGED <<current_excel_row, element_index>>
             ELSE /\ pc' = "loop"
                  /\ current_excel_row' = current_excel_row + 1
                  /\ element_index' = element_index + 1
    /\ UNCHANGED <<text_blocks, tables, filtered_text_blocks, unified_elements,
                   plannerVars, classifyVars, colorVars>>
    /\ UNCHANGED docVars

\* lines 602-605: one table element, with the row left empty before it and
\* the row left empty after it
RenderTable ==
    /\ pc = "loop"
    /\ element_index < Len(unified_elements)
    /\ unified_elements[element_index + 1].type = "table"
    /\ LET r == CreateCleanTable([ws |-> ws, raised |-> FALSE],
                                 unified_elements[element_index + 1].data,
                                 TableStartRow(current_excel_row), table_colors)
       IN /\ ws' = r.st.ws
          /\ IF r.st.raised
             THEN /\ pc' = "error"
                  /\ current_excel_row' = TableStartRow(current_excel_row)
                  /\ UNCHANGED element_index
             ELSE /\ pc' = "loop"
                  /\ current_excel_row' = r.row + 1
                  /\ element_index' = element_index + 1
    /\ UNCHANGED <<text_blocks, tables, filtered_text_blocks, unified_elements,
                   plannerVars, classifyVars, colorVars>>
    /\ UNCHANGED docVars

\* the loop of line 599 is exhausted and the function returns
Finish ==
    /\ pc = "loop"
    /\ element_index = Len(unified_elements)
    /\ pc' = "done"
    /\ UNCHANGED <<layoutVars, plannerVars, classifyVars, colorVars>>
    /\ UNCHANGED docVars

Next == Begin \/ RenderTextRow \/ RenderTable \/ Finish

Spec == Init /\ [][Next]_vars

\* cell.value of a cell, NoneStr if nothing was written
ValueAt(row, col) == CellAt(ws, row, col).value

\* no cell of the Excel row holds a value and no range of it is merged
RowIsEmpty(row) ==
    /\ \A k \in DOMAIN ws.cells : k[1] = row => ws.cells[k].value = NoneStr
    /\ \A m \in ws.merged : m[1] # row

\* the three cells of a table row lie in the plan (1,2)(3,5)(6,8)
RowHasPlan3(row, values) ==
    /\ ValueAt(row, 1) = values[1]
    /\ ValueAt(row, 3) = values[2]
    /\ ValueAt(row, 6) = values[3]
    /\ {m \in ws.merged : m[1] = row} = {<<row, 1, 2>>, <<row, 3, 5>>, <<row, 6, 8>>}
    /\ \A k \in DOMAIN ws.cells :
           (k[1] = row /\ ws.cells[k].value # NoneStr) => k[2] \in {1, 3, 6}

\* the cells of the row are bold and centered
RowHeaderStyled(row) ==
    \A col \in {1, 3, 6} :
        /\ CellAt(ws, row, col).font.bold
        /\ CellAt(ws, row, col).alignment.horizontal = "center"

\* the page of the scenario has been rendered
ScenarioDone ==
    /\ pc = "done"
    /\ text_blocks = <<SectionSpan>>
    /\ tables = <<PayTable>>

SectionHeaderInRow1 ==
    /\ ValueAt(1, 1) = T_CURRENT_EARNINGS
    /\ {m \in ws.merged : m[1] = 1} = {<<1, 1, 8>>}
    /\ CellAt(ws, 1, 1).alignment.horizontal = "center"

\* C8 as stated: the section header is the merged A-H cell of row 1, the
\* table occupies rows 2 and 3 under the plan (1,2)(3,5)(6,8), row 2 is
\* header-styled and "$800.00" is right-aligned in row 3.
C8_ScenarioRows2And3 ==
    ScenarioDone =>
        /\ SectionHeaderInRow1
        /\ RowHasPlan3(2, <<T_Type, T_Hours, T_Pay>>)
        /\ RowHeaderStyled(2)
        /\ RowHasPlan3(3, <<T_Regular, T_40, T_800>>)
        /\ CellAt(ws, 3, 6).alignment.horizontal = "right"

\* C8 amended: the section header is the merged A-H cell of row 1, row 2 is
\* left empty, the table occupies rows 3 and 4 under the plan
\* (1,2)(3,5)(6,8), row 3 is header-styled and "$800.00" is right-aligned
\* in row 4.
C8_ScenarioRows3And4 ==
    ScenarioDone =>
        /\ SectionHeaderInRow1
        /\ RowIsEmpty(2)
        /\ RowHasPlan3(3, <<T_Type, T_Hours, T_Pay>>)
        /\ RowHeaderStyled(3)
        /\ RowHasPlan3(4, <<T_Regular, T_40, T_800>>)
        /\ CellAt(ws, 4, 6).alignment.horizontal = "right"
        /\ ~CellAt(ws, 4, 6).font.bold

\* the scenario page is rendered to the end, "$800.00" standing in row 4
C8_Witness ==
    /\ ScenarioDone
    /\ element_index = 2
    /\ ValueAt(4, 6) = T_800

EmptyPage == text_blocks = <<>> /\ tables = <<>>

\* C9: rendering a page without spans and without tables raises no error,
\* renders no element, writes no cell value, merges no range and leaves
\* the row cursor on row 1.
C9_EmptyPageWritesNothing ==
    EmptyPage =>
        /\ pc # "error"
        /\ pc \in {"loop", "done"} =>
              /\ unified_elements = <<>>
              /\ \A k \in DOMAIN ws.cells : ws.cells[k].value = NoneStr
              /\ ws.merged = {}
              /\ current_excel_row = 1

\* an empty page has been rendered to the end, under a theme whose header
\* color no font accepts
C9_Witness ==
    /\ EmptyPage
    /\ pc = "done"
    /\ ColorRaises(table_colors.header_bg)
    /\ DOMAIN ws.cells = {}

(***************************************************************************)
(* create_excel_from_layout as a function of the layout                    *)
(*                                                                         *)
(* A layout is [text_blocks, tables, table_colors]; the empty dict that     *)
(* analyze_pdf_layout returns on failure is the empty sequence.            *)
(***************************************************************************)
\* lines 599-605: the elements from the i-th on, the cursor on row `cursor'
RECURSIVE RenderElements(_, _, _, _, _)
RenderElements(st, elems, i, cursor, colors) ==
    IF i > Len(elems) \/ st.raised THEN st
    ELSE IF elems[i].type = "text_row"
    THEN RenderElements(
             CreateRowLayout(st, elems[i].data, cursor, colors, DefaultPageWidth),
             elems, i + 1, cursor + 1, colors)
    ELSE LET r == CreateCleanTable(st, elems[i].data, TableStartRow(cursor), colors)
         IN RenderElements(r.st, elems, i + 1, r.row + 1, colors)

\* IntelligentPDFReader.create_excel_from_layout
CreateExcelFromLayout(sheet, layout_info) ==
    RenderElements(
        [ws |-> SetupWorksheet(sheet, layout_info.tables), raised |-> FALSE],
        CreateUnifiedLayout(
            FilterOverlappingText(layout_info.text_blocks, layout_info.tables),
            layout_info.tables),
        1, 1, layout_info.table_colors)

\* IntelligentPDFReader.analyze_pdf_layout: the layout of doc[0], or {} when
\* PyMuPDF is missing or anything raises (a file without pages included)
AnalyzePdfLayout(pages, fails) ==
    IF fails \/ pages = <<>> THEN <<>>
    ELSE <<[text_blocks |-> pages[1].text_blocks, tables |-> pages[1].tables,
            table_colors |-> pages[1].table_colors]>>

(***************************************************************************)
(* The fallback writer (src/utils/pdf_like_writer.py)                      *)
(***************************************************************************)
\* PDFLikeWriter._calculate_optimal_column_layout
WriterColumnLayout(n) ==
    CASE n = 1 -> << <<1, 8>> >>
      [] n = 2 -> << <<1, 4>>, <<5, 8>> >>
      [] n = 3 -> << <<1, 2>>, <<3, 5>>, <<6, 8>> >>
      [] n = 4 -> << <<1, 2>>, <<3, 4>>, <<5, 6>>, <<7, 8>> >>
      [] n = 5 -> << <<1, 1>>, <<2, 3>>, <<4, 4>>, <<5, 6>>, <<7, 8>> >>
      [] n = 6 -> << <<1, 1>>, <<2, 2>>, <<3, 3>>, <<4, 4>>, <<5, 6>>, <<7, 8>> >>
      [] n = 7 -> << <<1, 1>>, <<2, 2>>, <<3, 3>>, <<4, 4>>, <<5, 5>>, <<6, 6>>, <<7, 8>> >>
      [] n = 8 -> << <<1, 1>>, <<2, 2>>, <<3, 3>>, <<4, 4>>, <<5, 5>>, <<6, 6>>, <<7, 7>>, <<8, 8>> >>
      [] OTHER -> OnePerColumn(Min2(n, GridColumns))

\* TableFilter._is_numeric
FilterIsNumeric(t) == ParsesAsFloat(RemoveChars(StrStrip(t), {",", "$", "%", "-"}))

\* the cells of a grid, row after row
RECURSIVE FlatCells(_)
FlatCells(table_data) ==
    IF table_data = <<>> THEN <<>> ELSE Head(table_data) \o FlatCells(Tail(table_data))

\* TableFilter._is_real_table; fill_rate < 0.4 is compared in tenths
IsRealTable(table) ==
    LET cells == FlatCells(table.data)
        filled == SelectSeq(cells, LAMBDA c : CellTruthy(c) /\ StrStrip(CellStr(c)) # <<>>)
        numeric == SelectSeq(filled, LAMBDA c : FilterIsNumeric(CellStr(c)))
    IN /\ Len(table.data) >= 2
       /\ Len(table.data[1]) >= 2
       /\ 10 * Len(filled) >= 4 * Len(cells)
       /\ ~(Len(numeric) = 0 /\ Len(cells) > 4)

\* TableFilter.filter_real_tables
FilterRealTables(tbls) == SelectSeq(tbls, IsRealTable)

\* the cell is a MergedCell: it lies in a merged range behind the first cell
IsMergedCell(sheet, row, col) ==
    \E m \in sheet.merged : m[1] = row /\ m[2] < col /\ col <= m[3]

\* ws.merge_cells(...): every cell of the range but the first is replaced
\* by an empty MergedCell
MergeCells(st, row, start_col, end_col) ==
    IF st.raised THEN st
    ELSE [st EXCEPT !.ws =
             [cells |-> [k \in DOMAIN st.ws.cells |->
                            IF k[1] = row /\ start_col < k[2] /\ k[2] <= end_col
                            THEN BlankCell ELSE st.ws.cells[k]],
              merged |-> st.ws.merged \cup {<<row, start_col, end_col>>},
              column_widths |-> st.ws.column_widths,
              default_row_height |-> st.ws.default_row_height]]

\* cell.value = value, which a MergedCell refuses
SetValueChecked(st, row, col, value) ==
    IF st.raised THEN st
    ELSE IF IsMergedCell(st.ws, row, col) THEN Raise(st)
    ELSE SetValue(st, row, col, value)

\* lines 133-140: the lines of text_content from the first of `lines' on;
\* the result is the state and the row after the last line written
RECURSIVE BasicTextLines(_, _, _)
BasicTextLines(st, lines, current_row) ==
    IF lines = <<>> THEN [st |-> st, row |-> current_row]
    ELSE IF StrStrip(Head(lines)) = <<>> THEN BasicTextLines(st, Tail(lines), current_row)
    ELSE BasicTextLines(
             SetFont(SetValue(st, current_row, 1, StrStrip(Head(lines))),
                     current_row, 1, 10, FALSE, NoneStr),
             Tail(lines), current_row + 1)

\* lines 165-218: value, formatting and border of one cell
BasicTableCell(st, cell_value, pos, row_idx_, current_row, colors) ==
    LET start_col == pos[1]
        end_col == pos[2]
        placed ==
            IF start_col = end_col
            THEN SetValueChecked(st, current_row, start_col, cell_value)
            ELSE SetValueChecked(MergeCells(st, current_row, start_col, end_col),
                                 current_row, start_col, cell_value)
        formatted ==
            IF row_idx_ = 0
            THEN SetFillIf(SetFont(placed, current_row, start_col, 10, TRUE,
                                   colors.header_text),
                           current_row, start_col, colors.header_bg)
            ELSE SetFont(placed, current_row, start_col, 10, FALSE, colors.data_text)
    IN SetBorderIf(SetAlignment(formatted, current_row, start_col, "center"),
                   current_row, start_col, end_col, colors.border_color)

\* lines 165-218: the cells of one row from the col_idx-th on
RECURSIVE BasicTableCells(_, _, _, _, _, _, _)
BasicTableCells(st, cleaned_row, col_positions_, col_idx, row_idx_, current_row, colors) ==
    IF col_idx > Len(cleaned_row) \/ col_idx > Len(col_positions_) THEN st
    ELSE BasicTableCells(
             BasicTableCell(st, cleaned_row[col_idx], col_positions_[col_idx],
                            row_idx_, current_row, colors),
             cleaned_row, col_positions_, col_idx + 1, row_idx_, current_row, colors)

\* lines 152-218: the rows of one table from the k-th on; every row is
\* written to the same Excel row, for current_row is not advanced in the
\* loop
RECURSIVE BasicTableRows(_, _, _, _, _)
BasicTableRows(st, table_data, k, current_row, colors) ==
    IF k > Len(table_data) \/ st.raised THEN st
    ELSE LET cleaned_row == CleanedRow(table_data[k])
         IN IF cleaned_row = <<>>
            THEN BasicTableRows(st, table_data, k + 1, current_row, colors)
            ELSE BasicTableRows(
                     BasicTableCells(st, cleaned_row, WriterColumnLayout(Len(cleaned_row)),
                                     1, k - 1, current_row, colors),
                     table_data, k + 1, current_row, colors)

\* lines 143-219: the tables from the first of tbls on; a table with data
\* takes the row after a spacer row, and the cursor then moves one row on
RECURSIVE BasicTables(_, _, _, _)
BasicTables(st, tbls, current_row, colors) ==
    IF tbls = <<>> \/ st.raised THEN st
    ELSE IF Head(tbls).data = <<>> THEN BasicTables(st, Tail(tbls), current_row, colors)
    ELSE BasicTables(BasicTableRows(st, Head(tbls).data, 1, current_row + 1, colors),
                     Tail(tbls), current_row + 2, colors)

\* lines 222-224
SetWriterWidths(st) ==
    IF st.raised THEN st ELSE [st EXCEPT !.ws.column_widths = ComplexWidths]

\* PDFLikeWriter._create_basic_sheet; text_content is given by its lines
CreateBasicSheet(sheet, page_content) ==
    LET texts == BasicTextLines([ws |-> sheet, raised |-> FALSE],
                                page_content.text_content, 1)
    IN SetWriterWidths(
           BasicTables(texts.st, FilterRealTables(page_content.tables), texts.row,
                       page_content.table_colors))

\* main.py lines 127-134: the page dict handed to the writer; it has no
\* 'colors' entry
PageContent(page, tbls) ==
    [text_content |-> page.text_content, tables |-> tbls, table_colors |-> NoTableColors]

\* PDFLikeWriter._create_intelligent_pdf_sheet: the sheet of one page, the
\* path that rendered it, and whether an exception left the method
CreateIntelligentPdfSheet(pages, tbls, fails, n) ==
    LET layout_info == AnalyzePdfLayout(pages, fails)
    IN IF layout_info # <<>>
       THEN LET st == CreateExcelFromLayout(EmptySheet, layout_info[1])
            IN [title |-> n, path |-> "intelligent", ws |-> st.ws, raised |-> st.raised]
       ELSE LET st == CreateBasicSheet(EmptySheet, PageContent(pages[n], tbls))
            IN [title |-> n, path |-> "basic", ws |-> st.ws, raised |-> st.raised]

(***************************************************************************)
(* write_to_excel                                                          *)
(***************************************************************************)
PlainTheme == ExtractTableColors(<<>>, <<>>)
BadTheme ==
    ExtractTableColors(<<>>, << [fill |-> <<"str", "#", "F", "F", "F">>,
                                 stroke |-> <<"none">>] >>)

\* a page with a section header and a table, a page with one plain span, a
\* page whose theme holds a color no font accepts, and a page without
\* content
DocPayPage ==
    [text_blocks |-> <<SectionSpan>>, tables |-> <<PayTable>>,
     table_colors |-> PlainTheme, text_content |-> <<T_CURRENT_EARNINGS>>]
DocPlainPage ==
    [text_blocks |-> <<MkSpan(T_hello, 50, 180, 30, 10, PlainFont)>>, tables |-> <<>>,
     table_colors |-> PlainTheme, text_content |-> <<T_hello, <<" ">> >>]
DocBadThemePage ==
    [text_blocks |-> <<SectionSpan>>, tables |-> <<>>,
     table_colors |-> BadTheme, text_content |-> <<T_CURRENT_EARNINGS>>]
DocEmptyPage ==
    [text_blocks |-> <<>>, tables |-> <<>>, table_colors |-> PlainTheme,
     text_content |-> <<>>]

DocPages == {DocPayPage, DocPlainPage, DocBadThemePage, DocEmptyPage}

\* pdf_data['tables']: none, the pay table, and a table whose second row has
\* one cell more than its first
DocTableSets ==
    {<<>>,
     <<[data |-> PayTable.data]>>,
     <<[data |-> << <<T_Type, T_Hours>>, <<T_Regular, T_40, T_Dollar9>> >>]>>}

MaxPages == 2

InitDocument ==
    /\ pdf_pages \in SeqsUpTo(DocPages, MaxPages)
    /\ doc_tables \in DocTableSets
    /\ analysis_fails \in BOOLEAN
    /\ wb = <<>>
    /\ page_num = 0
    /\ saved = FALSE
    /\ result = None
    /\ pc = "call"
    /\ PlannerIdle
    /\ ClassifyIdle
    /\ LayoutIdle
    /\ ColorIdle

\* lines 77-88: the workbook is created, its default sheet removed; without
\* pages the method returns False
StartWrite ==
    /\ pc = "call"
    /\ wb' = <<>>
    /\ IF pdf_pages = <<>>
       THEN result' = "False" /\ pc' = "returned"
       ELSE result' = None /\ pc' = "pages"
    /\ UNCHANGED <<pdf_pages, doc_tables, analysis_fails, page_num, saved,
                   plannerVars, classifyVars, layoutVars, colorVars>>

\* lines 91-92: one iteration, the whole of _create_intelligent_pdf_sheet; an
\* exception leaves the loop for the handler of line 99
CreateSheet ==
    /\ pc = "pages"
    /\ page_num < Len(pdf_pages)
    /\ LET sheet == CreateIntelligentPdfSheet(pdf_pages, doc_tables, analysis_fails,
                                              page_num + 1)
       IN /\ wb' = Append(wb, [title |-> sheet.title, path |-> sheet.path,
                                ws |-> sheet.ws])
          /\ IF sheet.raised
             THEN result' = "False" /\ pc' = "returned" /\ UNCHANGED page_num
             ELSE page_num' = page_num + 1 /\ UNCHANGED <<result, pc>>
    /\ UNCHANGED <<pdf_pages, doc_tables, analysis_fails, saved,
                   plannerVars, classifyVars, layoutVars, colorVars>>

\* lines 95-97: wb.save(output_path); return True
SaveWorkbook ==
    /\ pc = "pages"
    /\ page_num = Len(pdf_pages)
    /\ saved' = TRUE
    /\ result' = "True"
    /\ pc' = "returned"
    /\ UNCHANGED <<pdf_pages, doc_tables, analysis_fails, wb, page_num,
                   plannerVars, classifyVars, layoutVars, colorVars>>

NextDocument == StartWrite \/ CreateSheet \/ SaveWorkbook

SpecDocument == InitDocument /\ [][NextDocument]_vars

\* C11: for a document with at least one page, write_to_excel returns with
\* a sheet for every page, the workbook saved and the result True, whatever
\* fails while a page is analysed or rendered; and when the analysis fails
\* every sheet is rendered by the fallback path.
C11_NeverAborted ==
    (pc = "returned" /\ pdf_pages # <<>>) =>
        /\ result = "True"
        /\ saved
        /\ Len(wb) = Len(pdf_pages)
        /\ analysis_fails => \A k \in DOMAIN wb : wb[k].path = "basic"

\* the sheet that the content of one page alone determines
SheetOfPage(page) ==
    CreateExcelFromLayout(EmptySheet,
        [text_blocks |-> page.text_blocks, tables |-> page.tables,
         table_colors |-> page.table_colors]).ws

\* C12: in a workbook that was saved after every page was analysed, the
\* sheet of page k is the rendering of the spans, tables and colors of
\* page k.
C12_PerPageIndependence ==
    (pc = "returned" /\ saved /\ ~analysis_fails) =>
        \A k \in DOMAIN wb : wb[k].ws = SheetOfPage(pdf_pages[k])

(***************************************************************************)
(* The canonical color encoding                                            *)
(***************************************************************************)
\* hex is 8 hexadecimal digits of which the first two are FF
IsCanonicalARGB(hex) ==
    /\ Len(hex) = 8
    /\ hex[1] = "F" /\ hex[2] = "F"
    /\ \A i \in DOMAIN hex : HexValue(hex[i]) >= 0

\* C13: _convert_color_to_hex returns either no color or exactly 8
\* hexadecimal digits AARRGGBB with alpha FF, whatever the raw color is;
\* a malformed value is dropped, not passed through.
C13_CanonicalEncoding ==
    pc = "converted" => (hex_color = NoneStr \/ IsCanonicalARGB(hex_color))

(***************************************************************************)
(* The resolved theme against the observed colors                          *)
(***************************************************************************)
\* the fills, strokes and text colors that _extract_colors tallied
ObservedFills == Tally(Fills(drawings), <<>>)
ObservedStrokes == Tally(Strokes(drawings), <<>>)
ObservedTextColors == Tally(span_colors, <<>>)

AllCanonical(freq) == \A i \in DOMAIN freq : IsCanonicalARGB(freq[i][1])

\* 0.299 R + 0.587 G + 0.114 B of hex lies in [lo, hi]
BrightnessWithin(hex, lo, hi) ==
    lo * 1000 <= Luma1000(hex) /\ Luma1000(hex) <= hi * 1000

\* key is one of the most frequent of the keys of freq that satisfy P
MostFrequentAmong(freq, key, P(_)) ==
    \E i \in DOMAIN freq :
        /\ freq[i][1] = key
        /\ P(key)
        /\ \A j \in DOMAIN freq : P(freq[j][1]) => freq[j][2] <= freq[i][2]

HeaderBand(hex) == BrightnessWithin(hex, 40, 180)

\* C14: header_bg is absent when no fill was observed; otherwise it is a
\* most frequent fill among those whose brightness
\* 0.299 R + 0.587 G + 0.114 B lies in [40, 180], or FFE5E5E5 when no fill
\* has such a brightness.
C14_HeaderBackground ==
    (pc = "extracted" /\ AllCanonical(ObservedFills)) =>
        IF ObservedFills = <<>> THEN table_colors.header_bg = NoneStr
        ELSE IF \E i \in DOMAIN ObservedFills : HeaderBand(ObservedFills[i][1])
        THEN MostFrequentAmong(ObservedFills, table_colors.header_bg, HeaderBand)
        ELSE table_colors.header_bg = FallbackHeaderGray

\* C14, with the brightness as _get_color_brightness computes it
\* (0.299 R + 0.587 G + 0.114 B truncated to an integer, 128 for a color
\* that does not parse): header_bg is absent when no fill was observed;
\* otherwise it is a most frequent fill among those whose truncated
\* brightness lies in [40, 180], or FFE5E5E5 when there is none.
C14_HeaderBackgroundTruncated ==
    pc = "extracted" =>
        IF ObservedFills = <<>> THEN table_colors.header_bg = NoneStr
        ELSE IF \E i \in DOMAIN ObservedFills :
                    IsSuitableHeaderColor(ObservedFills[i][1])
        THEN MostFrequentAmong(ObservedFills, table_colors.header_bg,
                               IsSuitableHeaderColor)
        ELSE table_colors.header_bg = FallbackHeaderGray

\* fills 336699, 666666, 666666: the later but more frequent 666666 is the
\* header background
C14_Witness ==
    /\ pc = "extracted"
    /\ Len(drawings) = 3
    /\ ObservedFills = <<<<RGB336699, 1>>,
                         <<<<"F","F","6","6","6","6","6","6">>, 2>>>>
    /\ table_colors.header_bg = <<"F","F","6","6","6","6","6","6">>

(***************************************************************************)
(* The column plans of the table planner, the row renderers and the        *)
(* fallback writer                                                         *)
(***************************************************************************)
\* C15: for 6 content columns the table planner returns
\* (1,1),(2,2),(3,4),(5,6),(7,7),(8,8) when the table is complex and
\* (1,1),(2,2),(3,3),(4,4),(5,6),(7,8) when it is simple or medium.
C15_SixColumnPlans ==
    (pc = "returned" /\ num_cols = 6) =>
        IF complexity = "complex"
        THEN col_positions =
                << <<1, 1>>, <<2, 2>>, <<3, 4>>, <<5, 6>>, <<7, 7>>, <<8, 8>> >>
        ELSE col_positions =
                << <<1, 1>>, <<2, 2>>, <<3, 3>>, <<4, 4>>, <<5, 6>>, <<7, 8>> >>

\* the plan that the specification gives for every tier
TierIndependentPlan(n) ==
    CASE n = 1 -> << <<1, 8>> >>
      [] n = 2 -> << <<1, 4>>, <<5, 8>> >>
      [] n = 3 -> << <<1, 2>>, <<3, 5>>, <<6, 8>> >>
      [] n = 4 -> << <<1, 2>>, <<3, 4>>, <<5, 6>>, <<7, 8>> >>
      [] n = 5 -> << <<1, 1>>, <<2, 3>>, <<4, 4>>, <<5, 6>>, <<7, 8>> >>
      [] n = 7 -> << <<1, 1>>, <<2, 2>>, <<3, 3>>, <<4, 4>>, <<5, 5>>, <<6, 6>>, <<7, 8>> >>
      [] n = 8 -> OnePerColumn(8)

\* C16: for N in {1, 2, 3, 4, 5, 7, 8} the table planner returns the same
\* plan in every tier, the one listed for N; for N > 8 it plans the first
\* 8 content columns only, one grid column each.
C16_TierIndependentPlans ==
    pc = "returned" =>
        /\ num_cols \in {1, 2, 3, 4, 5, 7, 8} =>
              col_positions = TierIndependentPlan(num_cols)
        /\ num_cols > GridColumns => col_positions = OnePerColumn(GridColumns)

\* C17: for every N the plan of the row renderers equals the plan of the
\* table planner, and the plan of the fallback writer equals the plan of
\* the table planner for a complex table.
C17_PlannersAgree ==
    pc = "returned" =>
        /\ RowColumnPositions(num_cols) = col_positions
        /\ WriterColumnLayout(num_cols) =
              CalculateOptimalColumnLayout(num_cols, "complex", has_headers, row_idx)

\* hex with 40 added to each of R, G and B, clamped at 255
Plus40(hex) ==
    <<"F","F">> \o FormatHex(Min2(255, HexPair(hex, 3) + 40), 2)
                \o FormatHex(Min2(255, HexPair(hex, 5) + 40), 2)
                \o FormatHex(Min2(255, HexPair(hex, 7) + 40), 2)

DarkStroke(hex) == Luma1000(hex) < 100 * 1000

\* C18: border_color is always a color: with strokes observed, a most
\* frequent stroke of brightness below 100, or black when no stroke is that
\* dark; with no stroke and a header background, the header background
\* with 40 added to each channel, clamped at 255; otherwise black.
C18_BorderAlwaysResolved ==
    pc = "extracted" =>
        /\ table_colors.border_color # NoneStr
        /\ IF ObservedStrokes # <<>>
           THEN IF \E i \in DOMAIN ObservedStrokes : DarkStroke(ObservedStrokes[i][1])
                THEN MostFrequentAmong(ObservedStrokes, table_colors.border_color,
                                       DarkStroke)
                ELSE table_colors.border_color = Black
           ELSE IF table_colors.header_bg # NoneStr
                THEN table_colors.border_color = Plus40(table_colors.header_bg)
                ELSE table_colors.border_color = Black

\* the text colors of the spans as _convert_color_to_hex encodes them
SpanHexColors == [i \in DOMAIN span_colors |-> ConvertColorToHex(span_colors[i])]

DarkText(hex) == Luma1000(hex) < 128 * 1000

\* C19: whenever a span has a text color of brightness below 128, pure
\* black (the integer color 0) included, data_text is populated with the
\* darkest such color.
C19_DataTextDarkest ==
    (pc = "extracted" /\ \E i \in DOMAIN SpanHexColors : DarkText(SpanHexColors[i])) =>
        /\ table_colors.data_text # NoneStr
        /\ \E i \in DOMAIN SpanHexColors : SpanHexColors[i] = table_colors.data_text
        /\ DarkText(table_colors.data_text)
        /\ \A i \in DOMAIN SpanHexColors :
              Luma1000(table_colors.data_text) <= Luma1000(SpanHexColors[i])

(***************************************************************************)
(* The complexity rating on its own                                        *)
(***************************************************************************)
ShortCell == <<"a">>
\* cells of LongCellLength and of LongCellLength + 1 characters
EdgeCell == [i \in 1..LongCellLength |-> "x"]
LongCell == [i \in 1..(LongCellLength + 1) |-> "x"]

\* a row of n cells, all c
RowOf(c, n) == [i \in 1..n |-> c]

\* rows of 0, 1, 2, 3, 5 and 9 cells
SampleRows ==
    {<<>>, <<ShortCell>>, <<LongCell>>, <<NoneCell, ShortCell>>,
     <<LongCell, ShortCell, EdgeCell>>, <<LongCell, LongCell, ShortCell>>,
     RowOf(ShortCell, 5), RowOf(ShortCell, 9)}

\* the grids of that many rows that are enumerated in full
MaxGridRows == 3

\* grids of 10, 11, 20 and 21 equal rows
TallGrids ==
    {RowOf(r, n) : r \in {<<ShortCell>>, <<ShortCell, LongCell, ShortCell>>},
                   n \in {10, 11, 20, 21}}

SampleGrids == SeqsUpTo(SampleRows, MaxGridRows) \cup TallGrids

InitComplexity ==
    /\ table_grid \in SampleGrids
    /\ num_cols = 0
    /\ complexity = "simple"
    /\ has_headers = FALSE
    /\ row_idx = 0
    /\ col_positions = <<>>
    /\ pc = "call"
    /\ ClassifyIdle
    /\ LayoutIdle
    /\ ColorIdle
    /\ DocIdle

\* line 140: 'complexity': self._assess_table_complexity(table_data)
Assess ==
    /\ pc = "call"
    /\ complexity' = AssessTableComplexity(table_grid)
    /\ pc' = "assessed"
    /\ UNCHANGED <<num_cols, has_headers, row_idx, col_positions, table_grid,
                   classifyVars, layoutVars, colorVars>>
    /\ UNCHANGED docVars

NextComplexity == Assess

SpecComplexity == InitComplexity /\ [][NextComplexity]_vars

\* the cells of a grid, all rows together
GridCells(grid) == FlatCells(grid)

LongCells(grid) ==
    SelectSeq(GridCells(grid), LAMBDA cell : Len(CellStr(cell)) > LongCellLength)

\* the column count of a grid: the length of its first row
ColumnCount(grid) == IF grid = <<>> THEN 0 ELSE Len(grid[1])

\* C20: for every grid, ragged ones included, the rating is complex iff
\* the column count exceeds 8 or the row count exceeds 20 or the cells of
\* string length above 20 are more than 30% of the cells of the grid;
\* otherwise medium iff the column count exceeds 4 or the row count
\* exceeds 10; otherwise simple.
C20_ComplexityRating ==
    pc = "assessed" =>
        complexity =
            IF \/ ColumnCount(table_grid) > 8
               \/ Len(table_grid) > 20
               \/ 10 * Len(LongCells(table_grid)) > 3 * Len(GridCells(table_grid))
            THEN "complex"
            ELSE IF ColumnCount(table_grid) > 4 \/ Len(table_grid) > 10
            THEN "medium"
            ELSE "simple"

(***************************************************************************)
(* Header detection on its own                                             *)
(***************************************************************************)
\* cells of a first row: '', None, a word, a number and an amount
SampleHeaderCells == {<<>>, NoneCell, T_Type, T_40, T_800}

\* the longest first row
MaxHeaderCells == 3

\* grids of no row, of one row, and of a first row above one data row
SampleHeaderGrids ==
    {<<>>}
    \cup {<<r>> : r \in SeqsUpTo(SampleHeaderCells, MaxHeaderCells)}
    \cup {<<r, <<T_Regular, T_40>> >> : r \in SeqsUpTo(SampleHeaderCells, MaxHeaderCells)}

InitHeaders ==
    /\ table_grid \in SampleHeaderGrids
    /\ num_cols = 0
    /\ complexity = "simple"
    /\ has_headers = FALSE
    /\ row_idx = 0
    /\ col_positions = <<>>
    /\ pc = "call"
    /\ ClassifyIdle
    /\ LayoutIdle
    /\ ColorIdle
    /\ DocIdle

\* line 139: 'has_headers': self._detect_headers(table_data)
Detect ==
    /\ pc = "call"
    /\ has_headers' = DetectHeaders(table_grid)
    /\ pc' = "detected"
    /\ UNCHANGED <<num_cols, complexity, row_idx, col_positions, table_grid,
                   classifyVars, layoutVars, colorVars>>
    /\ UNCHANGED docVars

NextHeaders == Detect

SpecHeaders == InitHeaders /\ [][NextHeaders]_vars

\* the positions of the first row that hold a non-empty cell, and those of
\* them whose cell is not numeric
NonEmptyAt(row) == {i \in DOMAIN row : row[i] # NoneCell /\ row[i] # <<>>}
NonNumericAt(row) == {i \in NonEmptyAt(row) : ~IsNumeric(row[i])}

\* C21: for a table of two rows or more, _detect_headers returns true
\* exactly when strictly more than half of the non-empty cells of the
\* first row are non-numeric; the empty cells are not part of the total.
C21_HeadersOverNonEmpty ==
    (pc = "detected" /\ Len(table_grid) >= 2) =>
        (has_headers <=>
            2 * Cardinality(NonNumericAt(table_grid[1]))
                > Cardinality(NonEmptyAt(table_grid[1])))

\* C21, with the total that the code takes: _detect_headers returns true
\* exactly when the table has two rows or more and the non-empty,
\* non-numeric cells of the first row are strictly more than half of all
\* cells of the first row, the empty ones included.
C21_HeadersOverAllCells ==
    pc = "detected" =>
        (has_headers <=>
            /\ Len(table_grid) >= 2
            /\ 2 * Cardinality(NonNumericAt(table_grid[1])) > Len(table_grid[1]))

\* the first row ['Type', '', ''] has one non-empty cell, a word, and is
\* not taken for a header row
C21_Witness ==
    /\ pc = "detected"
    /\ Len(table_grid) = 2
    /\ table_grid[1] = <<T_Type, <<>>, <<>> >>
    /\ ~has_headers

(***************************************************************************)
(* Row-type classification on its own                                      *)
(***************************************************************************)
T_USD == <<"U","S","$">>

\* spans with a section keyword, a label keyword, a table keyword, a
\* number, a '$' that is not a number and none of these, of font size 10;
\* two spans of font size 16 and one span without a font size
SampleRowSpans ==
    {MkSpan(t, 0, 0, 10, 10, [size |-> 10, flags |-> 0]) :
        t \in {T_CURRENT_EARNINGS, T_status, T_Type, T_40, T_USD, T_hello}}
    \cup {MkSpan(t, 0, 0, 10, 10, [size |-> 16, flags |-> 0]) :
              t \in {T_status, T_hello}}
    \cup {MkSpan(T_hello, 0, 0, 10, 10, [flags |-> 0])}

\* the longest row
MaxRowSpans == 3

InitRowType ==
    /\ row_spans \in SeqsUpTo(SampleRowSpans, MaxRowSpans) \ {<<>>}
    /\ row_class = None
    /\ text = <<>>
    /\ font_info = [flags |-> 0]
    /\ block_type = None
    /\ pc = "call"
    /\ PlannerIdle
    /\ LayoutIdle
    /\ ColorIdle
    /\ DocIdle

\* line 869: row_type = self._classify_row_type(row_elements)
ClassifyRow ==
    /\ pc = "call"
    /\ row_class' = ClassifyRowType(row_spans)
    /\ pc' = "classified"
    /\ UNCHANGED <<text, font_info, block_type, row_spans,
                   plannerVars, layoutVars, colorVars>>
    /\ UNCHANGED docVars

NextRowType == ClassifyRow

SpecRowType == InitRowType /\ [][NextRowType]_vars

RowTypes ==
    <<"section_header", "header_pair", "label_pair", "table_header", "data_row",
      "default">>

\* the text of the row, upper-cased and joined by blanks
JoinedUpper(row) == StrJoinSpace([i \in DOMAIN row |-> StrUpper(row[i].text)])

HasLargeFont(row) ==
    \E i \in DOMAIN row : "size" \in DOMAIN row[i].font_info /\ row[i].font_info.size > 14
HasAmount(row) ==
    \E i \in DOMAIN row : IsNumeric(row[i].text) \/ HasChar(row[i].text, "$")

\* the conditions of the six rules in the claimed order; the last always
\* applies
RowRuleHolds(row) ==
    <<Len(row) = 1 /\ AnyWordIn(JoinedUpper(row), RowSectionKeywords),
      Len(row) = 2 /\ HasLargeFont(row),
      Len(row) = 2 /\ AnyWordIn(JoinedUpper(row), RowLabelKeywords),
      Len(row) >= 3 /\ AnyWordIn(JoinedUpper(row), TableHeaderKeywords),
      HasAmount(row),
      TRUE>>

FirstRowRule(row) ==
    CHOOSE i \in 1..6 : RowRuleHolds(row)[i] /\ \A j \in 1..(i - 1) : ~RowRuleHolds(row)[j]

\* C22: the row type of a row of spans is the first rule, in the order
\* section_header, header_pair, label_pair, table_header, data_row,
\* default, whose condition holds; a two-span row with a font size above
\* 14 is header_pair even with a label keyword, and a row that matches no
\* earlier rule and has a '$' is data_row whatever its span count.
C22_RowTypeFirstMatch ==
    pc = "classified" =>
        /\ row_class = RowTypes[FirstRowRule(row_spans)]
        /\ (Len(row_spans) = 2 /\ HasLargeFont(row_spans)) => row_class = "header_pair"
        /\ (/\ \A j \in 1..4 : ~RowRuleHolds(row_spans)[j]
            /\ \E i \in DOMAIN row_spans : HasChar(row_spans[i].text, "$"))
              => row_class = "data_row"

\* a row of two spans, one of size 16, with the label keyword STATUS, has
\* been classified header_pair
C22_Witness ==
    /\ pc = "classified"
    /\ Len(row_spans) = 2
    /\ HasLargeFont(row_spans)
    /\ AnyWordIn(JoinedUpper(row_spans), RowLabelKeywords)
    /\ row_class = "header_pair"

(***************************************************************************)
(* The rows of the grouper                                                 *)
(***************************************************************************)
\* the rows of the unified sequence, in its order
UnifiedTextRows ==
    LET elems == SelectSeq(unified_elements, LAMBDA e : e.type = "text_row")
    IN [k \in DOMAIN elems |-> elems[k].data]

\* C23: the rows come in ascending order of their anchor, the smallest y
\* of the row; every span of a row is within 8 points of the anchor of its
\* row; the anchors of consecutive rows are more than 8 points apart; and
\* the spans of a row are in ascending order of x.
C23_RowShape ==
    pc = "unified" =>
        /\ UnifiedTextRows = GroupTextByRows(filtered_text_blocks)
        /\ \A k \in DOMAIN UnifiedTextRows :
              LET row == UnifiedTextRows[k]
              IN /\ row # <<>>
                 /\ \A i \in DOMAIN row : row[i].y - MinY(row) <= 8
                 /\ \A i, j \in DOMAIN row : i < j => row[i].x <= row[j].x
        /\ \A k \in DOMAIN UnifiedTextRows :
              k + 1 \in DOMAIN UnifiedTextRows =>
                  MinY(UnifiedTextRows[k + 1]) - MinY(UnifiedTextRows[k]) > 8

\* spans at y 0, 8 and 9: the first two share a row, the third starts the
\* next row although it is one point below the second
C23_Witness ==
    /\ pc = "unified"
    /\ Len(UnifiedTextRows) = 2
    /\ Len(UnifiedTextRows[1]) = 2
    /\ MinY(UnifiedTextRows[1]) = 0
    /\ \E i \in DOMAIN UnifiedTextRows[1] : UnifiedTextRows[1][i].y = 8
    /\ MinY(UnifiedTextRows[2]) = 9

(***************************************************************************)
(* The row cursor                                                          *)
(***************************************************************************)
\* the Excel rows in which the step changes a cell or merges a range
RowsTouched ==
    {k[1] : k \in {c \in DOMAIN ws'.cells :
                      c \notin DOMAIN ws.cells \/ ws'.cells[c] # ws.cells[c]}}
    \cup {m[1] : m \in ws'.merged \ ws.merged}

\* the Excel rows in which the sheet after the step holds a value
RowsWithValue ==
    {k[1] : k \in {c \in DOMAIN ws'.cells : ws'.cells[c].value # NoneStr}}

\* the rows of a cell grid in which some cell is not blank
NonBlankRowCount(grid) ==
    Cardinality({r \in DOMAIN grid :
                    \E i \in DOMAIN grid[r] : StrStrip(CellStr(grid[r][i])) # <<>>})

\* one step of the rendering loop keeps the protocol of the cursor
CursorStep ==
    /\ pc = "call" => current_excel_row' = 1
    /\ (pc = "loop" /\ pc' # "done") =>
          LET e == unified_elements[element_index + 1]
              n == IF e.type = "text_row" THEN 1 ELSE NonBlankRowCount(e.data.data)
              first == IF e.type = "text_row" THEN current_excel_row
                       ELSE current_excel_row + 1
          IN /\ RowsTouched \subseteq first..(first + n - 1)
             /\ pc' = "loop" =>
                   /\ current_excel_row' =
                          IF e.type = "text_row" THEN current_excel_row + 1
                          ELSE current_excel_row + n + 2
                   /\ current_excel_row' > current_excel_row
                   /\ first..(first + n - 1) \subseteq RowsWithValue
                   /\ element_index' = element_index + 1

\* C24: the cursor starts at 1; a text row is written into the Excel row
\* at the cursor only and moves the cursor by 1; a table moves it by 1,
\* then puts each rendered row into the next Excel row, then moves it by 1
\* more; so the cursor grows with every element and every element has
\* Excel rows of its own, in the order of the unified sequence.
C24_CursorProtocol == [][CursorStep]_vars

\* a section header, the pay table and a text row have been rendered into
\* rows 1, 3 and 4, and 6, and the cursor stands on row 7
C24_Witness ==
    /\ pc = "done"
    /\ element_index = 3
    /\ unified_elements[2].type = "table"
    /\ unified_elements[2].data = PayTable
    /\ current_excel_row = 7
    /\ \E col \in 1..GridColumns : ValueAt(6, col) = T_hello
    /\ RowIsEmpty(2) /\ RowIsEmpty(5)

(***************************************************************************)
(* One text row on its own                                                 *)
(***************************************************************************)
\* spans at x 50 and 60, which _get_column_from_x maps to column A, and at
\* x 300, which it maps to column E
SampleLineSpans ==
    {MkSpan(T_hello, 50, 0, 10, 10, PlainFont),
     MkSpan(T_Type, 50, 0, 10, 10, PlainFont),
     MkSpan(T_Regular, 60, 0, 10, 10, PlainFont),
     MkSpan(T_40, 60, 0, 10, 10, PlainFont),
     MkSpan(T_USD, 60, 0, 10, 10, PlainFont),
     MkSpan(T_hello, 300, 0, 10, 10, PlainFont),
     MkSpan(T_40, 300, 0, 10, 10, PlainFont),
     MkSpan(T_USD, 300, 0, 10, 10, PlainFont)}

\* the longest row that is rendered
MaxLineSpans == 3

\* the rows as the grouper emits them: not empty, in ascending order of x
SampleLines ==
    {r \in SeqsUpTo(SampleLineSpans, MaxLineSpans) :
        /\ r # <<>>
        /\ \A i \in 1..(Len(r) - 1) : r[i].x <= r[i + 1].x}

InitRow ==
    /\ row_spans \in SampleLines
    /\ row_class = None
    /\ current_excel_row = 1
    /\ ws = EmptySheet
    /\ text = <<>>
    /\ font_info = [flags |-> 0]
    /\ block_type = None
    /\ text_blocks = <<>>
    /\ tables = <<>>
    /\ filtered_text_blocks = <<>>
    /\ unified_elements = <<>>
    /\ element_index = 0
    /\ pc = "call"
    /\ PlannerIdle
    /\ ColorIdle
    /\ DocIdle

\* line 601: current_excel_row = self._create_row_layout(ws, element['data'],
\* current_excel_row, layout_info)
RenderRow ==
    /\ pc = "call"
    /\ row_class' = ClassifyRowType(row_spans)
    /\ LET st == CreateRowLayout([ws |-> ws, raised |-> FALSE], row_spans,
                                 current_excel_row, table_colors, DefaultPageWidth)
       IN /\ ws' = st.ws
          /\ IF st.raised
             THEN pc' = "error" /\ UNCHANGED current_excel_row
             ELSE pc' = "rendered" /\ current_excel_row' = current_excel_row + 1
    /\ UNCHANGED <<text, font_info, block_type, row_spans, text_blocks, tables,
                   filtered_text_blocks, unified_elements, element_index,
                   plannerVars, colorVars>>
    /\ UNCHANGED docVars

NextRow == RenderRow

SpecRow == InitRow /\ [][NextRow]_vars

\* the columns of Excel row 1 that hold a value
ValueColumns == {col \in 1..GridColumns : ValueAt(1, col) # NoneStr}

\* C25: in a row classified table_header, data_row or default, of N <= 8
\* spans, the i-th span from the left is written into the first cell of
\* the i-th range of the plan for N: every text is written, and no two
\* spans share a cell.
C25_SpansFollowPlan ==
    (pc = "rendered" /\ row_class \in {"table_header", "data_row", "default"}
                     /\ Len(row_spans) <= GridColumns) =>
        /\ \A i \in DOMAIN row_spans :
              ValueAt(1, RowColumnPositions(Len(row_spans))[i][1]) = row_spans[i].text
        /\ Cardinality(ValueColumns) = Len(row_spans)

\* C26 for text rows: in a data_row row every cell whose text is
\* numeric-looking or has a '$' is right-aligned and every other cell
\* left-aligned, whether its range is one column or a merged range.
C26_DataRowAlignment ==
    (pc = "rendered" /\ row_class = "data_row") =>
        \A i \in DOMAIN row_spans :
            LET col == RowColumnPositions(Len(row_spans))[i][1]
            IN CellAt(ws, 1, col).alignment.horizontal =
                   IF IsNumeric(row_spans[i].text) \/ HasChar(row_spans[i].text, "$")
                   THEN "right" ELSE "left"

(***************************************************************************)
(* Blank cells of a table                                                  *)
(***************************************************************************)
\* a cell that is '', whitespace only, or missing (None)
IsBlankValue(cell) == cell = NoneCell \/ StrStrip(cell) = <<>>

\* the cells of a grid row that are not blank
NonBlankCount(row) == Cardinality({i \in DOMAIN row : ~IsBlankValue(row[i])})

\* the number of cells of the sheet that hold a value
ValueCount == Cardinality({k \in DOMAIN ws.cells : ws.cells[k].value # NoneStr})

\* C27: on a page that consists of one table, a row whose cells are all
\* blank ('', whitespace or a missing value) writes nothing and leaves the
\* cursor where it is, and every other row writes one cell per non-blank
\* cell of the row: a blank cell is never written as text.
C27_BlankCellsSkipped ==
    (pc = "done" /\ text_blocks = <<>> /\ Len(tables) = 1) =>
        LET grid == tables[1].data
            rendered == {r \in DOMAIN grid : NonBlankCount(grid[r]) > 0}
        IN /\ current_excel_row = 3 + Cardinality(rendered)
           /\ ValueCount = SumSeq([r \in DOMAIN grid |-> NonBlankCount(grid[r])])
           /\ \A k \in DOMAIN ws.cells : ws.cells[k].value # <<"N","o","n","e">>

(***************************************************************************)
(* Failing sink operations                                                 *)
(***************************************************************************)
\* C28: a sink operation that fails while a page is rendered (here setting
\* a font, fill or border whose color the sink rejects) is caught inside
\* the renderer: create_excel_from_layout never ends in an exception, and
\* when it has left its loop every element of the page has been rendered.
C28_SinkFailuresCaught ==
    /\ pc # "error"
    /\ pc = "done" => element_index = Len(unified_elements)

(***************************************************************************)
(* The rows of the plain fallback sheet                                    *)
(***************************************************************************)
\* the lines of a page's text that _create_basic_sheet writes
WrittenLines(page) ==
    SelectSeq(page.text_content, LAMBDA line : StrStrip(line) # <<>>)

\* the non-blank rows of the tables that _create_basic_sheet renders
BasicRowCount ==
    LET real == FilterRealTables(doc_tables)
    IN SumSeq([t \in DOMAIN real |-> NonBlankRowCount(real[t].data)])

\* the Excel rows of a sheet in which some cell holds a value
SheetValueRows(sheet) ==
    {k[1] : k \in {c \in DOMAIN sheet.cells : sheet.cells[c].value # NoneStr}}

\* C29: on a sheet rendered by the plain fallback the text lines stand in
\* rows 1, 2, ... of column A, and the k non-blank rows of the tables occupy
\* k further Excel rows of their own: no table row overwrites another table
\* row or a text line.
C29_BasicRowsDistinct ==
    (pc = "returned" /\ result = "True" /\ analysis_fails) =>
        \A k \in DOMAIN wb :
            LET lines == WrittenLines(pdf_pages[k])
            IN /\ \A i \in DOMAIN lines :
                      CellAt(wb[k].ws, i, 1).value = StrStrip(lines[i])
               /\ Cardinality(SheetValueRows(wb[k].ws)) = Len(lines) + BasicRowCount

(***************************************************************************)
(* The grouper keeps every span                                            *)
(***************************************************************************)
\* the spans of the rows, row after row
RECURSIVE FlattenRows(_)
FlattenRows(rows) ==
    IF rows = <<>> THEN <<>> ELSE Head(rows) \o FlattenRows(Tail(rows))

\* the two sequences hold the same spans, each as often as the other
SameSpans(a, b) ==
    /\ Len(a) = Len(b)
    /\ \E f \in Placements(Len(a)) : \A i \in DOMAIN a : a[i] = b[f[i]]

\* C30: the rows of the grouper hold every span it was given exactly once,
\* spans of equal x or equal y included, and so do the text rows of the
\* unified sequence for the spans that survived the filter.
C30_NoSpanLostOrDuplicated ==
    pc = "unified" =>
        /\ SameSpans(FlattenRows(GroupTextByRows(filtered_text_blocks)),
                     filtered_text_blocks)
        /\ SameSpans(FlattenRows(UnifiedTextRows), filtered_text_blocks)

\* three spans at one place, two of them the same span, and a table among
\* the elements
C30_Witness ==
    /\ pc = "unified"
    /\ Len(filtered_text_blocks) = 3
    /\ filtered_text_blocks[1] = filtered_text_blocks[3]
    /\ filtered_text_blocks[2] # filtered_text_blocks[1]
    /\ filtered_text_blocks[2].x = filtered_text_blocks[1].x
    /\ filtered_text_blocks[2].y = filtered_text_blocks[1].y
    /\ tables # <<>>
    /\ Len(FlattenRows(UnifiedTextRows)) = 3

====
